---- MODULE Spec2Model ----
(***************************************************************************)
(* A model of dawn, a slash-command handler on top of hikari:              *)
(*   - the registry of command and group descriptors kept by the Bot and   *)
(*     by an Extension (dawn/bot.py, dawn/extensions.py);                  *)
(*   - the structural comparison of a descriptor with a remote command     *)
(*     (dawn/slash.py, dawn/commands/slash/groups.py);                     *)
(*   - the reconciliation of the registry with the remote command list on  *)
(*     the StartedEvent (dawn/bot.py, dawn/internals.py).                  *)
(*                                                                         *)
(* A Python dict is a sequence of [key, val] entries in insertion order,   *)
(* which is the order dict.values() iterates in.                           *)
(***************************************************************************)
EXTENDS Integers, Sequences, FiniteSets, TLC

VARIABLES
    slash_commands,   \* Bot._slash_commands
    slash_groups,     \* Bot._slash_groups
    ext_commands,     \* Extension._slash_commands
    ext_groups,       \* Extension._slash_groups
    call,             \* the last operation called and the name it was given
    raised,           \* the exception the last operation raised, or "none"
    compared,         \* the descriptor and remote entry compared last, with the results
    purge_extra,      \* Bot._purge_extra
    default_guilds,   \* Bot.default_guilds (None is the empty sequence)
    ext_default_guilds, \* Extension._default_guilds (None is the empty sequence)
    me,               \* whether Bot.get_me() returns the bot's own user
    remote,           \* the application's global commands held by the platform
    remote0,          \* the global commands the platform held when the bot started
    calls,            \* the REST calls issued since the bot started, in order
    pc,               \* the position of the StartedEvent callback
    pending,          \* the create calls the running handler has still to issue
    idx,              \* the position of the running loop in its dict's values
    all_commands,     \* the remote commands the running handler fetched
    fail_at,          \* the number of the REST call the transport fails on, 0 for none
    dispatch,         \* the dispatches of interaction events, one per event, in order of arrival
    cache,            \* the ids of the channels, members and roles in the bot's cache
    effects,          \* the cache lookups, member fetches and callback invocations made, in order
    ext_loaded,       \* Extension._loaded
    extensions,       \* the keys of Bot._extensions
    constructed,      \* the Option constructed last, with the type it was declared with
    callables,        \* the SlashCallable objects constructed, in order
    decl_group,       \* a SlashGroup: its _subcommands and _subgroups
    history           \* the REST calls of the earlier runs of the StartedEvent callback

regVars == <<slash_commands, slash_groups, ext_commands, ext_groups>>
cmpVars == <<compared>>
cfgVars == <<purge_extra, default_guilds, ext_default_guilds>>
dspVars == <<dispatch, cache, effects>>
extVars == <<ext_loaded, extensions>>
optVars == <<constructed>>
declVars == <<callables, decl_group>>
runVars == <<me, remote, remote0, calls, pc, pending, idx, all_commands, fail_at>>
vars == <<slash_commands, slash_groups, ext_commands, ext_groups, call, raised,
          compared, purge_extra, default_guilds, ext_default_guilds, me, remote,
          remote0, calls, pc, pending, idx, all_commands, fail_at, dispatch, cache,
          effects, ext_loaded, extensions, constructed, callables, decl_group,
          history>>

-----------------------------------------------------------------------------
(* Values *)

\* Names an application may give a descriptor, as written by the author.
NameInputs == {"Ping", "ping"}

Descriptions == {"d1", "d2"}

\* The name of the one extension of the model, and Python's None for an owner.
ExtName == "extension"
NoExtension == "None"

\* str.lower() on the names of the model.
Lower(s) ==
    CASE s = "Ping" -> "ping"
      [] s = "Test" -> "test"
      [] OTHER -> s

\* hikari.OptionType members used by the model
OptionTypes == {"STRING", "INTEGER"}

OptionNames == {"text", "n"}

\* The longest option list of a descriptor of the model.
MaxOptions == 2

\* Option(name, description, type=...): a hikari.CommandOption
Options == [name : OptionNames, description : {"d1"}, type : OptionTypes]

SeqsUpTo(S, n) == UNION {[1..k -> S] : k \in 0..n}

OptionLists == SeqsUpTo(Options, MaxOptions)

\* An Optional[Sequence[...]] attribute of a hikari object: None, or a sequence.
NoneSeq == [none |-> TRUE, items |-> <<>>]
SomeSeq(s) == [none |-> FALSE, items |-> s]

\* `x or []`
OrEmpty(x) == IF x.none \/ Len(x.items) = 0 THEN <<>> ELSE x.items

Min(a, b) == IF a < b THEN a ELSE b

-----------------------------------------------------------------------------
(* dict *)

DictKeys(d) == {d[i].key : i \in 1..Len(d)}

\* bool(d.get(k)) for values that are always truthy (descriptor objects)
DictHas(d, k) == k \in DictKeys(d)

DictIndex(d, k) == CHOOSE i \in 1..Len(d) : d[i].key = k

\* d[k], defined when DictHas(d, k)
DictGet(d, k) == d[DictIndex(d, k)].val

\* d[k] = v: an existing key keeps its position, a new key is appended
DictSet(d, k, v) ==
    IF DictHas(d, k)
    THEN [d EXCEPT ![DictIndex(d, k)] = [key |-> k, val |-> v]]
    ELSE Append(d, [key |-> k, val |-> v])

\* list(d.values())
DictValues(d) == [i \in 1..Len(d) |-> d[i].val]

-----------------------------------------------------------------------------
(* Descriptors *)

\* The guild_ids argument left at its default, None
NoneGuilds == <<"None">>

\* guild_ids or [] (SlashCommand), and
\* list(guild_ids) if guild_ids is not None else [] (SlashGroup)
GuildIdsOrEmpty(guild_ids) ==
    IF guild_ids = NoneGuilds THEN <<>> ELSE guild_ids

\* SlashCommand.__init__: the name is stored as given; guild_ids or []
SlashCommand(name, description, guild_ids, options) ==
    [name |-> name, description |-> description,
     guild_ids |-> GuildIdsOrEmpty(guild_ids),
     options |-> options, extension |-> NoExtension]

\* SlashGroup.__init__: the name is lowercased
SlashGroup(name, description, guild_ids) ==
    [name |-> Lower(name), description |-> description,
     guild_ids |-> GuildIdsOrEmpty(guild_ids),
     subcommands |-> <<>>, extension |-> NoExtension]

-----------------------------------------------------------------------------
(* Registration *)

\* Bot.add_slash_command, with the duplicate check dropped
AddSlashCommand_Overwrite(command) ==
    /\ slash_commands' = DictSet(slash_commands, command.name, command)
    /\ raised' = "none"

\* Bot.add_slash_command
AddSlashCommand(command) ==
    IF DictHas(slash_commands, command.name)
    THEN /\ raised' = "CommandAlreadyExists"
         /\ slash_commands' = slash_commands
    ELSE /\ slash_commands' = DictSet(slash_commands, command.name, command)
         /\ raised' = "none"

\* bot.add_slash_command(command)
BotAddSlashCommand ==
    \E n \in NameInputs, d \in Descriptions :
        LET command == SlashCommand(n, d, <<>>, <<>>) IN
        /\ AddSlashCommand(command)
        /\ call' = [op |-> "add_slash_command", name |-> command.name]
        /\ UNCHANGED <<slash_groups, ext_commands, ext_groups, cmpVars, cfgVars, extVars, optVars, declVars, history, dspVars, runVars>>

\* @bot.register: inner() calls add_slash_command and returns the command
BotRegister ==
    \E n \in NameInputs, d \in Descriptions :
        LET command == SlashCommand(n, d, <<>>, <<>>) IN
        /\ AddSlashCommand(command)
        /\ call' = [op |-> "register", name |-> command.name]
        /\ UNCHANGED <<slash_groups, ext_commands, ext_groups, cmpVars, cfgVars, extVars, optVars, declVars, history, dspVars, runVars>>

\* Bot.add_slash_group: checked against both maps
AddSlashGroup(group) ==
    IF DictHas(slash_groups, group.name) \/ DictHas(slash_commands, group.name)
    THEN /\ raised' = "CommandAlreadyExists"
         /\ slash_groups' = slash_groups
    ELSE /\ slash_groups' = DictSet(slash_groups, group.name, group)
         /\ raised' = "none"

\* bot.add_slash_group(group)
BotAddSlashGroup ==
    \E n \in NameInputs, d \in Descriptions :
        LET group == SlashGroup(n, d, <<>>) IN
        /\ AddSlashGroup(group)
        /\ call' = [op |-> "add_slash_group", name |-> group.name]
        /\ UNCHANGED <<slash_commands, ext_commands, ext_groups, cmpVars, cfgVars, extVars, optVars, declVars, history, dspVars, runVars>>

\* Extension.register: inner() checks the extension's commands only
ExtensionRegister(command) ==
    IF DictHas(ext_commands, command.name)
    THEN /\ raised' = "CommandAlreadyExists"
         /\ ext_commands' = ext_commands
    ELSE /\ ext_commands' = DictSet(ext_commands, command.name, command)
         /\ raised' = "none"

\* @ext.register
ExtRegister ==
    \E n \in NameInputs, d \in Descriptions :
        LET command == SlashCommand(n, d, <<>>, <<>>) IN
        /\ ExtensionRegister(command)
        /\ call' = [op |-> "ext.register", name |-> command.name]
        /\ UNCHANGED <<slash_commands, slash_groups, ext_groups, cmpVars, cfgVars, extVars, optVars, declVars, history, dspVars, runVars>>

\* Extension.add_slash_group: checks both maps, then binds the group to the extension
ExtensionAddSlashGroup(group) ==
    IF DictHas(ext_groups, group.name) \/ DictHas(ext_commands, group.name)
    THEN /\ raised' = "CommandAlreadyExists"
         /\ ext_groups' = ext_groups
    ELSE /\ ext_groups' = DictSet(ext_groups, group.name,
                                  [group EXCEPT !.extension = ExtName])
         /\ raised' = "none"

\* ext.add_slash_group(group)
ExtAddSlashGroup ==
    \E n \in NameInputs, d \in Descriptions :
        LET group == SlashGroup(n, d, <<>>) IN
        /\ ExtensionAddSlashGroup(group)
        /\ call' = [op |-> "ext.add_slash_group", name |-> group.name]
        /\ UNCHANGED <<slash_commands, slash_groups, ext_commands, cmpVars, cfgVars, extVars, optVars, declVars, history, dspVars, runVars>>

-----------------------------------------------------------------------------
(* The registry: any sequence of registrations on a fresh bot and extension *)

\* SlashGroup.__init__: self._subcommands = {} and self._subgroups = {}
NewGroup == [subcommands |-> <<>>, subgroups |-> <<>>]

\* The extension is not loaded, the bot has no extension, no Option and no
\* callable was constructed, the group has no declarations and the
\* StartedEvent callback has not run before.
Fresh ==
    /\ ext_loaded = FALSE
    /\ extensions = {}
    /\ constructed = <<>>
    /\ callables = <<>>
    /\ decl_group = NewGroup
    /\ history = <<>>

\* No interaction event has arrived and the cache is empty.
NoDispatch ==
    /\ dispatch = <<>>
    /\ cache = [channels |-> {}, members |-> {}, roles |-> {}]
    /\ effects = <<>>

Init ==
    /\ slash_commands = <<>>
    /\ slash_groups = <<>>
    /\ ext_commands = <<>>
    /\ ext_groups = <<>>
    /\ call = [op |-> "none", name |-> ""]
    /\ raised = "none"
    /\ compared = <<>>
    /\ purge_extra = FALSE
    /\ default_guilds = <<>>
    /\ ext_default_guilds = <<>>
    /\ me = FALSE
    /\ remote = <<>>
    /\ remote0 = <<>>
    /\ calls = <<>>
    /\ pc = "idle"
    /\ pending = <<>>
    /\ idx = 0
    /\ all_commands = <<>>
    /\ fail_at = 0
    /\ Fresh
    /\ NoDispatch

Next ==
    \/ BotAddSlashCommand
    \/ BotRegister
    \/ BotAddSlashGroup
    \/ ExtRegister
    \/ ExtAddSlashGroup

Spec == Init /\ [][Next]_vars

-----------------------------------------------------------------------------
(* Claims about the registry *)

IsBotRegistration(c) == c.op \in {"add_slash_command", "register"}

\* C1: registering on the bot a command whose name is already a key of the
\* registry raises CommandAlreadyExists and leaves the registry as it was.
C1_DuplicateRaisesAndKeepsRegistry ==
    [][(IsBotRegistration(call') /\ DictHas(slash_commands, call'.name))
         => (raised' = "CommandAlreadyExists" /\ slash_commands' = slash_commands)]_vars

\* C1 witness: a registration of a present name has failed on a registry of two.
C1_Witness ==
    /\ call.op = "register"
    /\ raised = "CommandAlreadyExists"
    /\ DictHas(slash_commands, call.name)
    /\ Len(slash_commands) = 2

\* C2: the bot's registry never holds two keys that are equal after lowercasing
\* (names are lowercased at construction, so "Ping" then "ping" collide).
C2_NoTwoKeysEqualAfterLowercasing ==
    \A i, j \in 1..Len(slash_commands) :
        Lower(slash_commands[i].key) = Lower(slash_commands[j].key) => i = j

\* C3: no name is a key of both the commands map and the groups map of the
\* extension's registry, whatever the order of the registrations.
C3_NoNameInBothMaps ==
    DictKeys(ext_commands) \cap DictKeys(ext_groups) = {}

-----------------------------------------------------------------------------
(* Structural comparison with a remote command *)

\* A hikari.SlashCommand as the REST API returns it for a command created from
\* a builder of this name, description and options: a command without options
\* has options None.
RemoteCommand(name, description, options) ==
    [name |-> name, description |-> description,
     options |-> IF Len(options) = 0 THEN NoneSeq ELSE SomeSeq(options)]

\* The remote entry a builder made from the descriptor creates:
\* slash_command_builder(command.name, command.description), add_option for
\* each of command.options, create.
BuildCommand(command) ==
    RemoteCommand(command.name, command.description, command.options)

\* zip(a, b): the pairs up to the shorter length
Zip(a, b) == [i \in 1..Min(Len(a), Len(b)) |-> <<a[i], b[i]>>]

\* SlashCommand._compare_with, comparing each option's description with the
\* remote option's name
CompareWith_DescriptionAgainstName(self, command) ==
    /\ self.name = command.name
    /\ self.description = command.description
    /\ Len(self.options) = Len(OrEmpty(command.options))
    /\ \A i \in DOMAIN Zip(self.options, OrEmpty(command.options)) :
           LET option == Zip(self.options, OrEmpty(command.options))[i][1]
               option_c == Zip(self.options, OrEmpty(command.options))[i][2]
           IN <<option.name, option.description, option.type>>
                  = <<option_c.name, option_c.name, option.type>>

\* SlashCommand._compare_with: the third component of both triples is the
\* local option's type
CompareWith(self, command) ==
    /\ self.name = command.name
    /\ self.description = command.description
    /\ Len(self.options) = Len(OrEmpty(command.options))
    /\ \A i \in DOMAIN Zip(self.options, OrEmpty(command.options)) :
           LET option == Zip(self.options, OrEmpty(command.options))[i][1]
               option_c == Zip(self.options, OrEmpty(command.options))[i][2]
           IN <<option.name, option.description, option.type>>
                  = <<option_c.name, option_c.description, option.type>>

\* SlashSubCommand._compare_with: the same comparison against a
\* hikari.CommandOption of type SUB_COMMAND
SubCompareWith(self, option) ==
    /\ self.name = option.name
    /\ self.description = option.description
    /\ Len(self.options) = Len(OrEmpty(option.options))
    /\ \A i \in DOMAIN Zip(self.options, OrEmpty(option.options)) :
           LET opt == Zip(self.options, OrEmpty(option.options))[i][1]
               option_c == Zip(self.options, OrEmpty(option.options))[i][2]
           IN <<opt.name, opt.description, opt.type>>
                  = <<option_c.name, option_c.description, opt.type>>

\* SlashSubCommand.__init__: the name is lowercased
SlashSubCommand(name, description, options) ==
    [name |-> Lower(name), description |-> description, options |-> options]

\* The descriptors and remote entries the comparison is applied to.
CmpNames == {"ping", "echo"}
CmpCommands ==
    {SlashCommand(n, d, <<>>, o) : n \in CmpNames, d \in Descriptions, o \in OptionLists}
CmpRemotes ==
    {RemoteCommand(n, d, o) : n \in CmpNames, d \in Descriptions, o \in OptionLists}
        \cup {[name |-> n, description |-> d, options |-> SomeSeq(<<>>)] :
                n \in CmpNames, d \in Descriptions}

\* command._compare_with(remote) and, for the sub-command of the same name,
\* description and options, subcommand._compare_with(remote as an option)
Compare ==
    /\ Len(compared) = 1
    /\ compared[1].op = "none"
    /\ LET self == compared[1].self
           other == compared[1].other
       IN compared' =
            <<[compared[1] EXCEPT
                 !.op = "compare",
                 !.result = CompareWith(self, other),
                 !.sub_result =
                    SubCompareWith(
                        SlashSubCommand(self.name, self.description, self.options),
                        other)]>>
    /\ UNCHANGED <<regVars, call, raised, cfgVars, extVars, optVars, declVars, history, dspVars, runVars>>

\* command._compare_with(the remote entry built from the command itself)
CompareWithOwnSnapshot ==
    /\ Len(compared) = 1
    /\ compared[1].op = "none"
    /\ LET self == compared[1].self
           other == BuildCommand(self)
       IN compared' =
            <<[compared[1] EXCEPT
                 !.op = "roundtrip",
                 !.other = other,
                 !.result = CompareWith(self, other),
                 !.sub_result =
                    SubCompareWith(
                        SlashSubCommand(self.name, self.description, self.options),
                        other)]>>
    /\ UNCHANGED <<regVars, call, raised, cfgVars, extVars, optVars, declVars, history, dspVars, runVars>>

InitCompare ==
    /\ slash_commands = <<>>
    /\ slash_groups = <<>>
    /\ ext_commands = <<>>
    /\ ext_groups = <<>>
    /\ call = [op |-> "none", name |-> ""]
    /\ raised = "none"
    /\ purge_extra = FALSE
    /\ default_guilds = <<>>
    /\ ext_default_guilds = <<>>
    /\ me = FALSE
    /\ remote = <<>>
    /\ remote0 = <<>>
    /\ calls = <<>>
    /\ pc = "idle"
    /\ pending = <<>>
    /\ idx = 0
    /\ all_commands = <<>>
    /\ fail_at = 0
    /\ Fresh
    /\ NoDispatch
    /\ \E self \in CmpCommands, other \in CmpRemotes :
          compared = <<[op |-> "none", self |-> self, other |-> other,
                        result |-> FALSE, sub_result |-> FALSE]>>

NextCompare ==
    \/ Compare
    \/ CompareWithOwnSnapshot

SpecCompare == InitCompare /\ [][NextCompare]_vars

-----------------------------------------------------------------------------
(* Claims about the comparison *)

\* Name, description, option count and every positional (name, description,
\* type) triple are equal.
StructurallyEqual(self, other) ==
    /\ self.name = other.name
    /\ self.description = other.description
    /\ Len(self.options) = Len(OrEmpty(other.options))
    /\ \A i \in 1..Min(Len(self.options), Len(OrEmpty(other.options))) :
           /\ self.options[i].name = OrEmpty(other.options)[i].name
           /\ self.options[i].description = OrEmpty(other.options)[i].description
           /\ self.options[i].type = OrEmpty(other.options)[i].type

Compared == compared[1]

\* C7: _compare_with of a command and of a sub-command returns true exactly
\* when name, description, option count and every positional option triple
\* (name, description, kind) are equal; a different kind at the same position
\* makes it false.
C7_CompareIsStructuralEquality ==
    (Len(compared) = 1 /\ Compared.op = "compare") =>
        /\ Compared.result = StructurallyEqual(Compared.self, Compared.other)
        /\ Compared.sub_result = StructurallyEqual(Compared.self, Compared.other)

\* C8: a descriptor compared with the remote snapshot built from its own
\* name, description and options is reported equal.
C8_RoundTrip ==
    (Len(compared) = 1 /\ Compared.op = "roundtrip") => Compared.result = TRUE

\* C8 witness: a descriptor with two options of different types has been
\* compared with its own snapshot.
C8_Witness ==
    /\ Len(compared) = 1
    /\ Compared.op = "roundtrip"
    /\ Len(Compared.self.options) = 2
    /\ Compared.self.options[1].type # Compared.self.options[2].type
    /\ Compared.result = TRUE

-----------------------------------------------------------------------------
(* Reconciliation with the platform on the StartedEvent *)

\* SlashSubCommand._build_as_option: a CommandOption of type SUB_COMMAND; the
\* platform returns an empty option list as None
BuildAsOption(sub) ==
    [name |-> sub.name, description |-> sub.description, type |-> "SUB_COMMAND",
     options |-> IF Len(sub.options) = 0 THEN NoneSeq ELSE SomeSeq(sub.options)]

\* The remote entry a builder made from the group creates:
\* slash_command_builder(group.name, group.description) with one option per
\* sub-command of group.subcommands
BuildGroup(group) ==
    RemoteCommand(group.name, group.description,
                  [i \in 1..Len(group.subcommands) |->
                      BuildAsOption(group.subcommands[i].val)])

\* Bot._has_guild_binded without the test of the bot's default_guilds
HasGuildBinded_IgnoresBotDefault(c) ==
    \/ Len(c.guild_ids) > 0
    \/ Len(IF c.extension # NoExtension THEN ext_default_guilds ELSE <<>>) > 0

\* Bot._has_guild_binded: any of the descriptor's guild_ids, its extension's
\* default_guilds and the bot's default_guilds is a non-empty list
HasGuildBinded(c) ==
    \/ Len(c.guild_ids) > 0
    \/ Len(IF c.extension # NoExtension THEN ext_default_guilds ELSE <<>>) > 0
    \/ Len(default_guilds) > 0

\* The fallback chain with the bot's default taken before the extension's.
EffectiveGuilds_BotDefaultFirst(c) ==
    IF Len(c.guild_ids) > 0 THEN c.guild_ids
    ELSE IF Len(default_guilds) > 0 THEN default_guilds
    ELSE IF c.extension # NoExtension THEN ext_default_guilds
    ELSE <<>>

\* command.guild_ids or (extension.default_guilds if extension else []) or
\* bot.default_guilds or []
EffectiveGuilds(c) ==
    IF Len(c.guild_ids) > 0 THEN c.guild_ids
    ELSE IF c.extension # NoExtension /\ Len(ext_default_guilds) > 0
         THEN ext_default_guilds
    ELSE default_guilds

\* [s[i] for i in range(len(s)) if keep[i]]
SelectWhere(s, keep) ==
    LET F[i \in 0..Len(s)] ==
            IF i = 0 THEN <<>>
            ELSE IF keep[i] THEN Append(F[i - 1], s[i]) ELSE F[i - 1]
    IN F[Len(s)]

\* The concatenation of the sequences of a sequence.
RECURSIVE Flatten(_)
Flatten(ss) == IF Len(ss) = 0 THEN <<>> ELSE Head(ss) \o Flatten(Tail(ss))

IsGlobal(c) == ~HasGuildBinded(c)

\* [c for c in d.values() if self._has_guild_binded(c) is False]
GlobalOf(d) ==
    SelectWhere(DictValues(d), [i \in 1..Len(d) |-> IsGlobal(d[i].val)])

\* [c for c in d.values() if self._has_guild_binded(c) is True]
GuildBoundOf(d) ==
    SelectWhere(DictValues(d), [i \in 1..Len(d) |-> HasGuildBinded(d[i].val)])

\* The remote entries the builders of a list of commands create.
BuildCommands(commands) == [i \in 1..Len(commands) |-> BuildCommand(commands[i])]

\* The remote entries the builders of a list of groups create.
BuildGroups(groups) == [i \in 1..Len(groups) |-> BuildGroup(groups[i])]

\* A REST call: its operation, its scope ("global" or a guild) and the
\* entries it carries.
Call(op, scope, items) == [op |-> op, scope |-> scope, items |-> items]

\* list.index(name) on the names of a list of remote commands, counted from
\* 0; absent names raise ValueError, which is -1 here
IndexOf(commands, name) ==
    IF \E i \in 1..Len(commands) : commands[i].name = name
    THEN (CHOOSE i \in 1..Len(commands) :
             /\ commands[i].name = name
             /\ \A j \in 1..(i - 1) : commands[j].name # name) - 1
    ELSE -1

\* The platform's list after a global command is created: an entry of the
\* same name is overwritten, a new name is added.
RemoteCreate(list, entry) ==
    IF IndexOf(list, entry.name) >= 0
    THEN [list EXCEPT ![IndexOf(list, entry.name) + 1] = entry]
    ELSE Append(list, entry)

\* The REST call about to be issued is the one the transport fails on.
Fails == fail_at = Len(calls) + 1

\* An awaited REST call whose error is caught and dropped: the coroutine
\* goes on at `next` either way.
Awaited_Swallowed(next) ==
    /\ raised' = raised
    /\ pc' = next

\* An awaited REST call returns and the coroutine goes on at `next`, or it
\* raises: no handler has a try block, so the error leaves the callback.
Awaited(next) ==
    /\ raised' = IF Fails THEN "TransportError" ELSE raised
    /\ pc' = IF Fails THEN "failed" ELSE next

\* builder.create(rest, b_user.id [, guild=guild]) is awaited: the call is
\* issued, and a global create changes the platform's global list
IssueCreate(scope, entry, next) ==
    /\ calls' = Append(calls, Call("create", scope, <<entry>>))
    /\ remote' = IF scope = "global" /\ ~Fails
                 THEN RemoteCreate(remote, entry) ELSE remote
    /\ Awaited(next)

\* rest.set_application_commands(b_user.id, builders) is awaited: the
\* platform's global list becomes the list sent
IssueSet(entries, next) ==
    /\ calls' = Append(calls, Call("set", "global", entries))
    /\ remote' = IF Fails THEN remote ELSE entries
    /\ Awaited(next)

\* rest.fetch_application_commands(b_user.id) is awaited
IssueFetch(next) ==
    /\ calls' = Append(calls, Call("fetch", "global", <<>>))
    /\ remote' = remote
    /\ Awaited(next)

\* The exception leaves the StartedEvent callback: no later handler runs.
Raise(exception) ==
    /\ raised' = exception
    /\ pc' = "failed"
    /\ UNCHANGED <<remote, calls, pending, idx, all_commands>>

\* The create calls of a guild handler, in the order of its two loops: for
\* each guild-bound descriptor, one per guild of its effective guild set.
GuildCreates(descriptors, builders) ==
    Flatten([i \in 1..Len(descriptors) |->
               [k \in 1..Len(EffectiveGuilds(descriptors[i])) |->
                   [scope |-> EffectiveGuilds(descriptors[i])[k],
                    entry |-> builders[i]]]])

\* The loop over the pending create calls: the next one is awaited, or the
\* loop ends and the callback goes on at `after`.
CreateLoop(at, after) ==
    /\ pc = at
    /\ IF Len(pending) = 0
       THEN /\ pc' = after
            /\ UNCHANGED <<raised, remote, calls, pending>>
       ELSE /\ IssueCreate(Head(pending).scope, Head(pending).entry, at)
            /\ pending' = Tail(pending)
    /\ UNCHANGED <<regVars, cmpVars, cfgVars, extVars, optVars, declVars, history, dspVars, call, me, remote0, idx,
                   all_commands, fail_at>>

(* Bot._update_slash_commands, the callback dawn/bot.py subscribes *)

\* The StartedEvent is dispatched to Bot._update_slash_commands. This Bot
\* keeps no groups.
BotStarted ==
    /\ pc = "idle"
    /\ Len(slash_groups) = 0
    /\ \E m \in BOOLEAN : me' = m
    /\ pc' = "bot_global_command"
    /\ UNCHANGED <<regVars, cmpVars, cfgVars, extVars, optVars, declVars, history, dspVars, call, raised, remote, remote0, calls,
                   pending, idx, all_commands, fail_at>>

\* Bot._handle_global_command whose create loop also issues the creates of
\* the guild-bound commands, ahead of the global ones
BotHandleGlobalCommand_GuildCreatesFirst ==
    /\ pc = "bot_global_command"
    /\ IF ~me
       THEN Raise("BotNotInitialised")
       ELSE LET global_command_builders ==
                    BuildCommands(GlobalOf(slash_commands))
            IN /\ pending' =
                     GuildCreates(GuildBoundOf(slash_commands),
                                  BuildCommands(GuildBoundOf(slash_commands)))
                        \o [i \in 1..Len(global_command_builders) |->
                              [scope |-> "global",
                               entry |-> global_command_builders[i]]]
               /\ pc' = "bot_global_create"
               /\ UNCHANGED <<raised, remote, calls, idx, all_commands>>
    /\ UNCHANGED <<regVars, cmpVars, cfgVars, extVars, optVars, declVars, history, dspVars, call, me, remote0, fail_at>>

\* Bot._handle_global_command with the purge_extra test dropped: always the
\* bulk overwrite
BotHandleGlobalCommand_AlwaysPurge ==
    /\ pc = "bot_global_command"
    /\ IF ~me
       THEN Raise("BotNotInitialised")
       ELSE /\ IssueSet(BuildCommands(GlobalOf(slash_commands)),
                         "bot_guild_commands")
            /\ UNCHANGED <<pending, idx, all_commands>>
    /\ UNCHANGED <<regVars, cmpVars, cfgVars, extVars, optVars, declVars, history, dspVars, call, me, remote0, fail_at>>

\* Bot._handle_global_command up to its first await: the builders of the
\* commands that are not guild-bound; one bulk overwrite if purge_extra, else
\* one create per builder
BotHandleGlobalCommand ==
    /\ pc = "bot_global_command"
    /\ IF ~me
       THEN Raise("BotNotInitialised")
       ELSE LET global_command_builders ==
                    BuildCommands(GlobalOf(slash_commands))
            IN IF purge_extra
               THEN /\ IssueSet(global_command_builders, "bot_guild_commands")
                    /\ UNCHANGED <<pending, idx, all_commands>>
               ELSE /\ pending' = [i \in 1..Len(global_command_builders) |->
                                     [scope |-> "global",
                                      entry |-> global_command_builders[i]]]
                    /\ pc' = "bot_global_create"
                    /\ UNCHANGED <<raised, remote, calls, idx, all_commands>>
    /\ UNCHANGED <<regVars, cmpVars, cfgVars, extVars, optVars, declVars, history, dspVars, call, me, remote0, fail_at>>

\* [await _command.create(self.rest, b_user.id) for _command in builders]
BotGlobalCreate == CreateLoop("bot_global_create", "bot_guild_commands")

\* Bot._handle_guild_commands up to its first await
BotHandleGuildCommands ==
    /\ pc = "bot_guild_commands"
    /\ IF ~me
       THEN Raise("BotNotInitialised")
       ELSE /\ pending' = GuildCreates(GuildBoundOf(slash_commands),
                                         BuildCommands(GuildBoundOf(slash_commands)))
            /\ pc' = "bot_guild_create"
            /\ UNCHANGED <<raised, remote, calls, idx, all_commands>>
    /\ UNCHANGED <<regVars, cmpVars, cfgVars, extVars, optVars, declVars, history, dspVars, call, me, remote0, fail_at>>

\* await command_builder.create(self.rest, b_user.id, guild=guild)
BotGuildCreate == CreateLoop("bot_guild_create", "done")

(* CommandManager, the handlers of dawn/internals.py *)

\* The StartedEvent is dispatched to a callback that awaits the handlers of
\* CommandManager: the global scope first (commands, then groups), then the
\* guild scope (commands, then groups).
CMStarted ==
    /\ pc = "idle"
    /\ \E m \in BOOLEAN : me' = m
    /\ pc' = "cm_global_command"
    /\ UNCHANGED <<regVars, cmpVars, cfgVars, extVars, optVars, declVars, history, dspVars, call, raised, remote, remote0, calls,
                   pending, idx, all_commands, fail_at>>

\* CommandManager._handle_global_command without the test of bot.get_me()
CMHandleGlobalCommand_NoIdentityCheck ==
    /\ pc = "cm_global_command"
    /\ IF purge_extra
       THEN /\ IssueSet(BuildCommands(GlobalOf(slash_commands)),
                         "cm_global_groups")
            /\ UNCHANGED <<pending, idx, all_commands>>
       ELSE /\ IssueFetch("cm_global_command_loop")
            /\ all_commands' = remote
            /\ idx' = 1
            /\ UNCHANGED pending
    /\ UNCHANGED <<regVars, cmpVars, cfgVars, extVars, optVars, declVars, history, dspVars, call, me, remote0, fail_at>>

\* CommandManager._handle_global_command up to its first await: one bulk
\* overwrite with the commands that are not guild-bound if purge_extra, else
\* the fetch of the remote commands
CMHandleGlobalCommand ==
    /\ pc = "cm_global_command"
    /\ IF ~me
       THEN Raise("BotNotInitialised")
       ELSE IF purge_extra
       THEN /\ IssueSet(BuildCommands(GlobalOf(slash_commands)),
                         "cm_global_groups")
            /\ UNCHANGED <<pending, idx, all_commands>>
       ELSE /\ IssueFetch("cm_global_command_loop")
            /\ all_commands' = remote
            /\ idx' = 1
            /\ UNCHANGED pending
    /\ UNCHANGED <<regVars, cmpVars, cfgVars, extVars, optVars, declVars, history, dspVars, call, me, remote0, fail_at>>

\* One pass of the loop body of _handle_global_command, with the index
\* tested against None instead of by truth
CommandDecision_IndexZeroFound(command, fetched) ==
    LET index == IndexOf(fetched, command.name) IN
    IF index = -1 THEN "raise"
    ELSE IF CompareWith(command, fetched[index + 1]) THEN "continue"
    ELSE "create"

\* One pass of the loop body of _handle_global_command:
\* index := command_names.index(command.name) raises ValueError for an absent
\* name; `not index` holds for index 0, and the command is created; else it
\* is created unless _compare_with(all_commands[index]) is True
CommandDecision(command, fetched) ==
    LET index == IndexOf(fetched, command.name) IN
    IF index = -1 THEN "raise"
    ELSE IF index = 0 THEN "create"
    ELSE IF CompareWith(command, fetched[index + 1]) THEN "continue"
    ELSE "create"

\* for command in bot._slash_commands.values(): every command of the bot,
\* guild-bound or not
CMGlobalCommandLoop ==
    /\ pc = "cm_global_command_loop"
    /\ IF idx > Len(slash_commands)
       THEN /\ pc' = "cm_global_groups"
            /\ UNCHANGED <<raised, remote, calls, pending, idx, all_commands>>
       ELSE LET command == DictValues(slash_commands)[idx]
                decision == CommandDecision(command, all_commands)
            IN IF decision = "raise"
               THEN Raise("ValueError")
               ELSE /\ IF decision = "create"
                       THEN IssueCreate("global", BuildCommand(command), pc)
                       ELSE UNCHANGED <<raised, remote, calls, pc>>
                    /\ idx' = idx + 1
                    /\ UNCHANGED <<pending, all_commands>>
    /\ UNCHANGED <<regVars, cmpVars, cfgVars, extVars, optVars, declVars, history, dspVars, call, me, remote0, fail_at>>

\* command.options is not None and command.options[0].type == SUB_COMMAND
\* (a remote command with options has at least one)
IsGroupEntry(command) ==
    /\ ~command.options.none
    /\ command.options.items[1].type = "SUB_COMMAND"

\* CommandManager._handle_global_groups up to its first await: one bulk
\* overwrite with the groups that are not guild-bound if purge_extra, else
\* the fetch of the remote commands, of which the groups are kept
CMHandleGlobalGroups ==
    /\ pc = "cm_global_groups"
    /\ IF ~me
       THEN Raise("BotNotInitialised")
       ELSE IF purge_extra
       THEN /\ IssueSet(BuildGroups(GlobalOf(slash_groups)), "cm_guild_commands")
            /\ UNCHANGED <<pending, idx, all_commands>>
       ELSE /\ IssueFetch("cm_global_groups_loop")
            /\ all_commands' = SelectWhere(remote, [i \in 1..Len(remote) |->
                                                       IsGroupEntry(remote[i])])
            /\ idx' = 1
            /\ UNCHANGED pending
    /\ UNCHANGED <<regVars, cmpVars, cfgVars, extVars, optVars, declVars, history, dspVars, call, me, remote0, fail_at>>

\* The all([...]) of _handle_global_groups: name, description, the number of
\* options against the number of sub-commands, and each sub-command compared
\* with the option at its position
GroupMatches(group, g_command) ==
    /\ g_command.name = group.name
    /\ g_command.description = group.description
    /\ Len(OrEmpty(g_command.options)) = Len(group.subcommands)
    /\ \A i \in DOMAIN Zip(DictValues(group.subcommands), OrEmpty(g_command.options)) :
          SubCompareWith(DictValues(group.subcommands)[i],
                         OrEmpty(g_command.options)[i])

\* One pass of the loop body of _handle_global_groups: ValueError for an
\* absent name, a create for index 0, else a create unless the group matches
GroupDecision(group, fetched) ==
    LET index == IndexOf(fetched, group.name) IN
    IF index = -1 THEN "raise"
    ELSE IF index = 0 THEN "create"
    ELSE IF GroupMatches(group, fetched[index + 1]) THEN "continue"
    ELSE "create"

\* for group in bot._slash_groups.values(): every group of the bot
CMGlobalGroupsLoop ==
    /\ pc = "cm_global_groups_loop"
    /\ IF idx > Len(slash_groups)
       THEN /\ pc' = "cm_guild_commands"
            /\ UNCHANGED <<raised, remote, calls, pending, idx, all_commands>>
       ELSE LET group == DictValues(slash_groups)[idx]
                decision == GroupDecision(group, all_commands)
            IN IF decision = "raise"
               THEN Raise("ValueError")
               ELSE /\ IF decision = "create"
                       THEN IssueCreate("global", BuildGroup(group), pc)
                       ELSE UNCHANGED <<raised, remote, calls, pc>>
                    /\ idx' = idx + 1
                    /\ UNCHANGED <<pending, all_commands>>
    /\ UNCHANGED <<regVars, cmpVars, cfgVars, extVars, optVars, declVars, history, dspVars, call, me, remote0, fail_at>>

\* CommandManager._handle_guild_commands up to its first await
CMHandleGuildCommands ==
    /\ pc = "cm_guild_commands"
    /\ IF ~me
       THEN Raise("BotNotInitialised")
       ELSE /\ pending' = GuildCreates(GuildBoundOf(slash_commands),
                                         BuildCommands(GuildBoundOf(slash_commands)))
            /\ pc' = "cm_guild_commands_create"
            /\ UNCHANGED <<raised, remote, calls, idx, all_commands>>
    /\ UNCHANGED <<regVars, cmpVars, cfgVars, extVars, optVars, declVars, history, dspVars, call, me, remote0, fail_at>>

\* await command_builder.create(bot.rest, b_user.id, guild=guild), commands
CMGuildCommandsCreate == CreateLoop("cm_guild_commands_create", "cm_guild_groups")

\* CommandManager._handle_guild_groups up to its first await
CMHandleGuildGroups ==
    /\ pc = "cm_guild_groups"
    /\ IF ~me
       THEN Raise("BotNotInitialised")
       ELSE /\ pending' = GuildCreates(GuildBoundOf(slash_groups),
                                         BuildGroups(GuildBoundOf(slash_groups)))
            /\ pc' = "cm_guild_groups_create"
            /\ UNCHANGED <<raised, remote, calls, idx, all_commands>>
    /\ UNCHANGED <<regVars, cmpVars, cfgVars, extVars, optVars, declVars, history, dspVars, call, me, remote0, fail_at>>

\* await command_builder.create(bot.rest, b_user.id, guild=guild), groups
CMGuildGroupsCreate == CreateLoop("cm_guild_groups_create", "done")

(* The bots and platforms reconciliation is run on *)

\* The longest list of global commands the platform holds at the start.
MaxRemote == 2

Guild1 == "G1"

TextOption(type) == [name |-> "text", description |-> "d1", type |-> type]

\* Registered commands: "ping" without options and "echo" with one STRING
\* option "text", global or bound to a guild.
RecCommands ==
    {SlashCommand("ping", "d1", g, <<>>) : g \in {<<>>, <<Guild1>>}}
        \cup {SlashCommand("echo", "d1", g, <<TextOption("STRING")>>) :
                g \in {<<>>, <<Guild1>>}}

\* Registered groups: "grp" with the sub-command "sub" declared by
\* group.subcommand(), which has one STRING option "text".
RecGroup(description, guild_ids) ==
    [SlashGroup("grp", description, guild_ids) EXCEPT
        !.subcommands =
            DictSet(<<>>, "sub",
                    SlashSubCommand("sub", "d1", <<TextOption("STRING")>>))]

RecGroups == {RecGroup("d1", g) : g \in {<<>>, <<Guild1>>}}

\* Global commands the platform may hold: commands named as the local ones
\* with either description and no option or one option "text" of either
\* type, and the group with either description.
RemoteEntries ==
    {RemoteCommand(n, d, o) :
        n \in {"ping", "echo"}, d \in Descriptions,
        o \in {<<>>, <<TextOption("STRING")>>, <<TextOption("INTEGER")>>}}
      \cup {BuildGroup(RecGroup(d, <<>>)) : d \in Descriptions}

DistinctNames(s) == \A i, j \in 1..Len(s) : s[i].name = s[j].name => i = j

\* The dict a sequence of registrations of descriptors of distinct names leaves
AsDict(s) == [i \in 1..Len(s) |-> [key |-> s[i].name, val |-> s[i]]]

InitReconcile ==
    /\ \E s \in SeqsUpTo(RecCommands, 2) :
          DistinctNames(s) /\ slash_commands = AsDict(s)
    /\ \E s \in SeqsUpTo(RecGroups, 1) : slash_groups = AsDict(s)
    /\ ext_commands = <<>>
    /\ ext_groups = <<>>
    /\ call = [op |-> "none", name |-> ""]
    /\ raised = "none"
    /\ compared = <<>>
    /\ purge_extra \in BOOLEAN
    /\ default_guilds = <<>>
    /\ ext_default_guilds = <<>>
    /\ me = FALSE
    /\ \E s \in SeqsUpTo(RemoteEntries, MaxRemote) :
          DistinctNames(s) /\ remote = s /\ remote0 = s
    /\ calls = <<>>
    /\ pc = "idle"
    /\ pending = <<>>
    /\ idx = 0
    /\ all_commands = <<>>
    /\ fail_at = 0
    /\ Fresh
    /\ NoDispatch

NextReconcile ==
    \/ BotStarted
    \/ BotHandleGlobalCommand
    \/ BotGlobalCreate
    \/ BotHandleGuildCommands
    \/ BotGuildCreate
    \/ CMStarted
    \/ CMHandleGlobalCommand
    \/ CMGlobalCommandLoop
    \/ CMHandleGlobalGroups
    \/ CMGlobalGroupsLoop
    \/ CMHandleGuildCommands
    \/ CMGuildCommandsCreate
    \/ CMHandleGuildGroups
    \/ CMGuildGroupsCreate

SpecReconcile == InitReconcile /\ [][NextReconcile]_vars

-----------------------------------------------------------------------------
(* Claims about reconciliation *)

\* The number of create calls issued for the global scope that carry `name`.
GlobalCreatesFor(name) ==
    Cardinality({i \in 1..Len(calls) :
                    /\ calls[i].op = "create"
                    /\ calls[i].scope = "global"
                    /\ calls[i].items[1].name = name})

\* The calls of one operation on the global scope, by position.
GlobalCalls(op) ==
    {i \in 1..Len(calls) : calls[i].op = op /\ calls[i].scope = "global"}

HasRemote0(name) == IndexOf(remote0, name) >= 0
Remote0(name) == remote0[IndexOf(remote0, name) + 1]

\* The local commands that are globally scoped.
GlobalCommands == {c \in {slash_commands[i].val : i \in 1..Len(slash_commands)} : IsGlobal(c)}
GlobalGroups == {g \in {slash_groups[i].val : i \in 1..Len(slash_groups)} : IsGlobal(g)}

\* The remote entry of the command's name at the start is identical to it.
MatchesRemote0(c) == HasRemote0(c.name) /\ StructurallyEqual(c, Remote0(c.name))
DiffersFromRemote0(c) == HasRemote0(c.name) /\ ~StructurallyEqual(c, Remote0(c.name))

\* The handling of the global commands is over: completed, or left by an
\* exception.
GlobalCommandsHandled ==
    pc \notin {"idle", "bot_global_command", "bot_global_create",
               "cm_global_command", "cm_global_command_loop"}

\* C4: in incremental mode no create or update call is issued for a local
\* global command whose remote entry of the same name is structurally
\* identical, whatever the entry's position in the fetched list.
C4_NoCallForIdenticalCommand ==
    ~purge_extra =>
        \A c \in GlobalCommands : MatchesRemote0(c) => GlobalCreatesFor(c.name) = 0

\* C5: in incremental mode, with a local global command that has no remote
\* entry of its name, reconciliation raises no error and issues exactly one
\* create call for the command, carrying its name, description and options.
C5_AbsentCommandCreatedOnce ==
    (~purge_extra /\ me /\ pc # "idle") =>
        \A c \in GlobalCommands :
            ~HasRemote0(c.name) =>
                /\ raised = "none"
                /\ GlobalCommandsHandled =>
                      /\ GlobalCreatesFor(c.name) = 1
                      /\ \E i \in GlobalCalls("create") :
                            calls[i].items = <<BuildCommand(c)>>

\* C6: in incremental mode a local global command whose remote entry of the
\* same name differs in description or options gets exactly one update call,
\* and no call is issued for another local command whose remote entry matches.
C6_OneUpdateForDifferingCommand ==
    (~purge_extra /\ me /\ GlobalCommandsHandled) =>
        \A c \in GlobalCommands :
            DiffersFromRemote0(c) =>
                /\ GlobalCreatesFor(c.name) = 1
                /\ \A d \in GlobalCommands :
                      (d # c /\ MatchesRemote0(d)) => GlobalCreatesFor(d.name) = 0

LocalNames == DictKeys(slash_commands) \cup DictKeys(slash_groups)

\* C9: in incremental mode every remote entry that has no local descriptor of
\* its name is still held unchanged by the platform, and no bulk-replace or
\* delete call is issued.
C9_IncrementalNeverRemoves ==
    ~purge_extra =>
        /\ \A k \in 1..Len(remote0) :
              remote0[k].name \notin LocalNames =>
                  \E j \in 1..Len(remote) : remote[j] = remote0[k]
        /\ \A i \in 1..Len(calls) : calls[i].op \notin {"set", "delete"}

\* C9 witness: an incremental run has ended after creating a command, with a
\* remote entry that no local descriptor names.
C9_Witness ==
    /\ ~purge_extra
    /\ pc = "done"
    /\ GlobalCalls("create") # {}
    /\ \E k \in 1..Len(remote0) :
          /\ remote0[k].name \notin LocalNames
          /\ \E j \in 1..Len(remote) : remote[j] = remote0[k]

\* C10: in bulk-overwrite mode a run issues exactly one bulk-replace call for
\* the global scope, carrying exactly the global commands and the global
\* groups, and no create call for the global scope.
C10_OneBulkReplaceWithAllGlobals ==
    (purge_extra /\ pc = "done") =>
        /\ Cardinality(GlobalCalls("set")) = 1
        /\ \A i \in GlobalCalls("set") :
              /\ {calls[i].items[k] : k \in 1..Len(calls[i].items)}
                    = {BuildCommand(c) : c \in GlobalCommands}
                        \cup {BuildGroup(g) : g \in GlobalGroups}
              /\ Len(calls[i].items)
                    = Cardinality(GlobalCommands) + Cardinality(GlobalGroups)
        /\ GlobalCalls("create") = {}

\* The handling of the global scope, commands and groups, is over and the
\* callback has gone on to the guild scope.
GlobalScopeCompleted ==
    pc \in {"bot_guild_commands", "bot_guild_create", "cm_guild_commands",
            "cm_guild_commands_create", "cm_guild_groups",
            "cm_guild_groups_create", "done"}

\* The entries the local globally-scoped commands and groups build.
LocalGlobalEntries ==
    {BuildCommand(c) : c \in GlobalCommands} \cup {BuildGroup(g) : g \in GlobalGroups}

\* C11: in bulk-overwrite mode, once the global scope is reconciled, the
\* platform's global commands are exactly the entries of the local
\* globally-scoped commands and groups.
C11_BulkConverges ==
    (purge_extra /\ GlobalScopeCompleted) =>
        /\ {remote[k] : k \in 1..Len(remote)} = LocalGlobalEntries
        /\ Len(remote) = Cardinality(LocalGlobalEntries)

-----------------------------------------------------------------------------
(* Reconciliation of bots with default guilds and an extension *)

Guild2 == "G2"
Guild3 == "G3"

\* Extension.create_setup and Extension.add_slash_group bind the descriptor
\* to the extension: descriptor._extension = self
OwnedBy(descriptor, extension) == [descriptor EXCEPT !.extension = extension]

\* Registered commands: "ping" and "echo", with or without explicit
\* guild_ids, added to the bot directly or by the extension.
GuildCommands ==
    {OwnedBy(SlashCommand(n, "d1", g, <<>>), e) :
        n \in {"ping", "echo"}, g \in {<<>>, <<Guild3>>},
        e \in {NoExtension, ExtName}}

GuildGroups ==
    {OwnedBy(RecGroup("d1", g), e) :
        g \in {<<>>, <<Guild3>>}, e \in {NoExtension, ExtName}}

\* The platform holds nothing, or an entry for each name of the registry.
GuildRemotes ==
    {<<>>,
     <<RemoteCommand("ping", "d1", <<>>), RemoteCommand("echo", "d1", <<>>),
       BuildGroup(RecGroup("d1", <<>>))>>}

InitGuilds ==
    /\ \E s \in SeqsUpTo(GuildCommands, 2) :
          DistinctNames(s) /\ slash_commands = AsDict(s)
    /\ \E s \in SeqsUpTo(GuildGroups, 1) : slash_groups = AsDict(s)
    /\ ext_commands = <<>>
    /\ ext_groups = <<>>
    /\ call = [op |-> "none", name |-> ""]
    /\ raised = "none"
    /\ compared = <<>>
    /\ purge_extra \in BOOLEAN
    /\ default_guilds \in {<<>>, <<Guild2>>}
    /\ ext_default_guilds \in {<<>>, <<Guild1>>}
    /\ me = FALSE
    /\ \E s \in GuildRemotes : remote = s /\ remote0 = s
    /\ calls = <<>>
    /\ pc = "idle"
    /\ pending = <<>>
    /\ idx = 0
    /\ all_commands = <<>>
    /\ fail_at = 0
    /\ Fresh
    /\ NoDispatch

SpecGuilds == InitGuilds /\ [][NextReconcile]_vars

\* The descriptors of the bot's registry, commands and groups.
Descriptors ==
    {slash_commands[i].val : i \in 1..Len(slash_commands)}
        \cup {slash_groups[i].val : i \in 1..Len(slash_groups)}

Elements(s) == {s[i] : i \in 1..Len(s)}

\* The guild set the fallback chain gives a descriptor: its explicit
\* guild_ids, else its extension's default guilds, else the bot's.
ChainGuilds(c) ==
    IF c.guild_ids # <<>> THEN Elements(c.guild_ids)
    ELSE IF c.extension # NoExtension /\ ext_default_guilds # <<>>
         THEN Elements(ext_default_guilds)
    ELSE Elements(default_guilds)

\* The create calls issued for a guild that carry `name`, by position.
GuildCreatesFor(name) ==
    {i \in 1..Len(calls) :
        /\ calls[i].op = "create"
        /\ calls[i].scope # "global"
        /\ calls[i].items[1].name = name}

\* C12: a guild-scope create call for a descriptor targets a guild of the
\* fallback chain (explicit guild_ids, else extension default, else bot
\* default), and when the run is over exactly one call was issued for each
\* guild of that set; with extension default [G1] and bot default [G2] the
\* calls are for G1 and none for G2.
C12_GuildFallbackChain ==
    \A c \in Descriptors :
        /\ \A i \in GuildCreatesFor(c.name) : calls[i].scope \in ChainGuilds(c)
        /\ pc = "done" =>
              /\ {calls[i].scope : i \in GuildCreatesFor(c.name)} = ChainGuilds(c)
              /\ Cardinality(GuildCreatesFor(c.name)) = Cardinality(ChainGuilds(c))

\* C12 witness: the run is over for a command of the extension without
\* explicit guild_ids, with extension default [G1] and bot default [G2], and
\* a create call for G1 was issued for it.
C12_Witness ==
    /\ pc = "done"
    /\ ext_default_guilds = <<Guild1>>
    /\ default_guilds = <<Guild2>>
    /\ \E c \in Descriptors :
          /\ c.guild_ids = <<>>
          /\ c.extension = ExtName
          /\ \E i \in GuildCreatesFor(c.name) : calls[i].scope = Guild1

\* The calls on the global scope that carry an entry named `name`: creates
\* and bulk overwrites, by position.
GlobalCallsCarrying(name) ==
    {i \in 1..Len(calls) :
        /\ calls[i].scope = "global"
        /\ calls[i].op \in {"create", "set"}
        /\ \E k \in 1..Len(calls[i].items) : calls[i].items[k].name = name}

\* C13: in both modes a guild-scoped descriptor (explicit guild_ids, or a
\* default of its extension, or a default of the bot) is carried by no
\* create or overwrite call on the global scope, and a globally-scoped
\* descriptor gets no guild-scope call.
C13_ScopePartition ==
    \A c \in Descriptors :
        /\ ChainGuilds(c) # {} => GlobalCallsCarrying(c.name) = {}
        /\ ChainGuilds(c) = {} => GuildCreatesFor(c.name) = {}

-----------------------------------------------------------------------------
(* Claims about failures of reconciliation *)

MaxFailAt == 3

\* Bots started on a platform whose transport fails on one of the first
\* REST calls of the run, or on none.
InitTransport ==
    /\ \E s \in SeqsUpTo(RecCommands, 2) :
          DistinctNames(s) /\ slash_commands = AsDict(s)
    /\ \E s \in SeqsUpTo(RecGroups, 1) : slash_groups = AsDict(s)
    /\ ext_commands = <<>>
    /\ ext_groups = <<>>
    /\ call = [op |-> "none", name |-> ""]
    /\ raised = "none"
    /\ compared = <<>>
    /\ purge_extra \in BOOLEAN
    /\ default_guilds = <<>>
    /\ ext_default_guilds = <<>>
    /\ me = FALSE
    /\ \E s \in GuildRemotes : remote = s /\ remote0 = s
    /\ calls = <<>>
    /\ pc = "idle"
    /\ pending = <<>>
    /\ idx = 0
    /\ all_commands = <<>>
    /\ fail_at \in 0..MaxFailAt
    /\ Fresh
    /\ NoDispatch

SpecTransport == InitTransport /\ [][NextReconcile]_vars

\* C15: a transport error of a REST call is neither caught nor retried: the
\* call the transport fails on is the last call of the run, attempted once,
\* and the run has then failed with the transport's error, the guild phase
\* included when the global phase fails.
C15_TransportErrorPropagates ==
    /\ fail_at > 0 =>
          /\ Len(calls) <= fail_at
          /\ Len(calls) = fail_at => pc = "failed" /\ raised = "TransportError"
    /\ raised = "TransportError" => pc = "failed" /\ Len(calls) = fail_at

\* C15 witness: a call on the global scope failed in a run of a bot that has
\* a guild-bound descriptor, and no call for a guild was issued.
C15_Witness ==
    /\ raised = "TransportError"
    /\ pc = "failed"
    /\ calls[Len(calls)].scope = "global"
    /\ \E c \in Descriptors : HasGuildBinded(c) /\ GuildCreatesFor(c.name) = {}

-----------------------------------------------------------------------------
(* Dispatch of interaction events: Bot.process_slash_commands *)

\* A Python value: its class, its content, and for an object of the
\* platform the guild it belongs to and where it was obtained.
PyValue(py, v) == [py |-> py, v |-> v, guild |-> "", src |-> ""]

PyNone == PyValue("None", "")

\* inter.guild_id of an interaction outside a guild
NoGuild == "None"

\* isinstance(value, int): hikari.Snowflake is a subclass of int
IsInt(value) == value.py \in {"int", "Snowflake"}

\* isinstance(value, hikari.Snowflake)
IsSnowflake(value) == value.py = "Snowflake"

\* A channel lookup that gives the id back when the channel is not cached.
GetGuildChannel_RawIdOnMiss(id) ==
    IF id \in cache.channels
    THEN [py |-> "GuildChannel", v |-> id, guild |-> "", src |-> "cache"]
    ELSE PyValue("Snowflake", id)

\* self.cache.get_guild_channel(id): the cached channel, or None
GetGuildChannel(id) ==
    IF id \in cache.channels
    THEN [py |-> "GuildChannel", v |-> id, guild |-> "", src |-> "cache"]
    ELSE PyNone

\* A member lookup that never finds the member.
GetMember_AlwaysMiss(guild, id) == PyNone

\* self.cache.get_member(guild, id): the cached member, or None
GetMember(guild, id) ==
    IF <<guild, id>> \in cache.members
    THEN [py |-> "Member", v |-> id, guild |-> guild, src |-> "cache"]
    ELSE PyNone

\* The member self.rest.fetch_member(guild, id) returns.
FetchedMember(guild, id) ==
    [py |-> "Member", v |-> id, guild |-> guild, src |-> "rest"]

\* A role lookup that gives the id back when the role is not cached.
GetRole_RawIdOnMiss(id) ==
    IF id \in cache.roles
    THEN [py |-> "Role", v |-> id, guild |-> "", src |-> "cache"]
    ELSE PyValue("Snowflake", id)

\* self.cache.get_role(id): the cached role, or None
GetRole(id) ==
    IF id \in cache.roles
    THEN [py |-> "Role", v |-> id, guild |-> "", src |-> "cache"]
    ELSE PyNone

\* res.attachments.get(id): the attachment of the side table, or None
GetAttachment(resolved, id) ==
    IF id \in resolved.attachments
    THEN [py |-> "Attachment", v |-> id, guild |-> "", src |-> "resolved"]
    ELSE PyNone

\* A cache lookup, a member fetch or a callback invocation made by the
\* dispatch of event e.
Effect(e, op, target, guild, args) ==
    [dispatch |-> e, op |-> op, target |-> target, guild |-> guild, args |-> args]

\* The USER branch without the test of inter.guild_id
ResolveUser_IgnoresGuild(event, opt) ==
    IF GetMember(event.guild_id, opt.value.v) # PyNone
    THEN [outcome |-> "value",
          value |-> GetMember(event.guild_id, opt.value.v),
          lookup |-> "get_member"]
    ELSE [outcome |-> "fetch", value |-> PyNone, lookup |-> "get_member"]

\* The USER branch: None outside a guild, else
\* self.cache.get_member(g_id, opt.value) or await self.rest.fetch_member(...)
ResolveUser(event, opt) ==
    IF event.guild_id = NoGuild
    THEN [outcome |-> "value", value |-> PyNone, lookup |-> "none"]
    ELSE IF GetMember(event.guild_id, opt.value.v) # PyNone
    THEN [outcome |-> "value",
          value |-> GetMember(event.guild_id, opt.value.v),
          lookup |-> "get_member"]
    ELSE [outcome |-> "fetch", value |-> PyNone, lookup |-> "get_member"]

\* The else branch with the value converted to a string
RawValue_AsString(opt) == PyValue("str", opt.value.v)

\* The else branch: kwargs[opt.name] = opt.value
RawValue(opt) == opt.value

\* One pass of the loop of invoke_slash_command over inter.options: what
\* the option resolves to without awaiting ("value"), or that the member
\* must be fetched ("fetch"), or that the coroutine returns ("return");
\* with the cache lookup made, if any.
Resolution(event, opt) ==
    IF opt.type = "CHANNEL" /\ IsInt(opt.value)
    THEN [outcome |-> "value", value |-> GetGuildChannel(opt.value.v),
          lookup |-> "get_guild_channel"]
    ELSE IF opt.type = "USER" /\ IsInt(opt.value)
    THEN ResolveUser(event, opt)
    ELSE IF opt.type = "ROLE" /\ IsInt(opt.value)
    THEN IF event.guild_id = NoGuild
         THEN [outcome |-> "value", value |-> PyNone, lookup |-> "none"]
         ELSE [outcome |-> "value", value |-> GetRole(opt.value.v),
               lookup |-> "get_role"]
    ELSE IF opt.type = "ATTACHMENT" /\ IsSnowflake(opt.value)
    THEN IF event.resolved.none
         THEN [outcome |-> "return", value |-> PyNone, lookup |-> "none"]
         ELSE [outcome |-> "value",
               value |-> GetAttachment(event.resolved, opt.value.v),
               lookup |-> "none"]
    ELSE [outcome |-> "value", value |-> RawValue(opt), lookup |-> "none"]

\* The option a lookup or a fetch is made for, as the argument of its effect.
ForOption(opt) == <<PyValue("str", opt.name)>>

\* The effects log after the lookup of a resolution, if it made one.
Looked(e, event, opt, lookup) ==
    IF lookup = "none" THEN effects
    ELSE Append(effects,
                Effect(e, lookup, opt.value.v,
                       IF lookup = "get_member" THEN event.guild_id ELSE "",
                       ForOption(opt)))

\* command(context, *kwargs): unpacking a dict with one star passes its
\* keys, the option names, as the positional arguments
PositionalArgs(kwargs) == [i \in 1..Len(kwargs) |-> PyValue("str", kwargs[i].key)]

\* Bot.process_slash_commands without the isinstance test of the interaction
ProcessSlashCommands_AnyInteraction(e) ==
    /\ dispatch[e].pc = "received"
    /\ IF ~DictHas(slash_commands, dispatch[e].event.command_name)
       THEN dispatch' = [dispatch EXCEPT ![e].pc = "ignored"]
       ELSE dispatch' = [dispatch EXCEPT ![e].pc = "resolving",
                                         ![e].at = 1,
                                         ![e].kwargs = <<>>]
    /\ UNCHANGED <<regVars, call, raised, cmpVars, cfgVars, extVars, optVars, declVars, history, runVars, cache, effects>>

\* Bot.process_slash_commands taking the command out of the registry
\* (pop instead of get)
ProcessSlashCommands_PopsCommand(e) ==
    /\ dispatch[e].pc = "received"
    /\ IF dispatch[e].event.kind # "command"
          \/ ~DictHas(slash_commands, dispatch[e].event.command_name)
       THEN /\ dispatch' = [dispatch EXCEPT ![e].pc = "ignored"]
            /\ UNCHANGED slash_commands
       ELSE /\ dispatch' = [dispatch EXCEPT ![e].pc = "invoked"]
            /\ slash_commands' =
                  SelectWhere(slash_commands,
                              [i \in 1..Len(slash_commands) |->
                                  slash_commands[i].key #
                                      dispatch[e].event.command_name])
    /\ UNCHANGED <<slash_groups, ext_commands, ext_groups, call, raised, cmpVars, cfgVars, extVars, optVars, declVars, history, runVars, cache, effects>>

\* Bot.process_slash_commands: an interaction that is not a
\* CommandInteraction, or that names no command of the bot, is dropped;
\* else invoke_slash_command starts with empty kwargs
ProcessSlashCommands(e) ==
    /\ dispatch[e].pc = "received"
    /\ IF dispatch[e].event.kind # "command"
       THEN dispatch' = [dispatch EXCEPT ![e].pc = "ignored"]
       ELSE IF ~DictHas(slash_commands, dispatch[e].event.command_name)
       THEN dispatch' = [dispatch EXCEPT ![e].pc = "ignored"]
       ELSE dispatch' = [dispatch EXCEPT ![e].pc = "resolving",
                                         ![e].at = 1,
                                         ![e].kwargs = <<>>]
    /\ UNCHANGED <<regVars, call, raised, cmpVars, cfgVars, extVars, optVars, declVars, history, runVars, cache, effects>>

\* The loop body with kwargs kept in one place for all dispatches: the
\* value resolved for one event is stored for every event in flight
ResolveOption_SharedKwargs(e) ==
    /\ dispatch[e].pc = "resolving"
    /\ dispatch[e].at <= Len(dispatch[e].event.options)
    /\ LET event == dispatch[e].event
           opt == event.options[dispatch[e].at]
           res == Resolution(event, opt)
       IN /\ effects' = Looked(e, event, opt, res.lookup)
          /\ dispatch' =
                IF res.outcome = "value"
                THEN [d \in 1..Len(dispatch) |->
                        [dispatch[d] EXCEPT
                           !.kwargs = DictSet(dispatch[d].kwargs, opt.name, res.value),
                           !.at = IF d = e THEN dispatch[e].at + 1
                                  ELSE dispatch[d].at]]
                ELSE IF res.outcome = "fetch"
                THEN [dispatch EXCEPT ![e].pc = "fetching"]
                ELSE [dispatch EXCEPT ![e].pc = "returned"]
    /\ UNCHANGED <<regVars, call, raised, cmpVars, cfgVars, extVars, optVars, declVars, history, runVars, cache>>

\* The loop body of invoke_slash_command for the option at `at`
ResolveOption(e) ==
    /\ dispatch[e].pc = "resolving"
    /\ dispatch[e].at <= Len(dispatch[e].event.options)
    /\ LET event == dispatch[e].event
           opt == event.options[dispatch[e].at]
           res == Resolution(event, opt)
       IN /\ effects' = Looked(e, event, opt, res.lookup)
          /\ dispatch' =
                IF res.outcome = "value"
                THEN [dispatch EXCEPT
                        ![e].kwargs = DictSet(dispatch[e].kwargs, opt.name, res.value),
                        ![e].at = dispatch[e].at + 1]
                ELSE IF res.outcome = "fetch"
                THEN [dispatch EXCEPT ![e].pc = "fetching"]
                ELSE [dispatch EXCEPT ![e].pc = "returned"]
    /\ UNCHANGED <<regVars, call, raised, cmpVars, cfgVars, extVars, optVars, declVars, history, runVars, cache>>

\* await self.rest.fetch_member(g_id, opt.value): the member fetched is the
\* option's value, or the call raises and the error leaves the dispatch
FetchMember(e) ==
    /\ dispatch[e].pc = "fetching"
    /\ LET event == dispatch[e].event
           opt == event.options[dispatch[e].at]
       IN /\ effects' = Append(effects,
                               Effect(e, "fetch_member", opt.value.v,
                                      event.guild_id, ForOption(opt)))
          /\ \E ok \in BOOLEAN :
                dispatch' =
                    IF ok
                    THEN [dispatch EXCEPT
                            ![e].kwargs =
                                DictSet(dispatch[e].kwargs, opt.name,
                                        FetchedMember(event.guild_id, opt.value.v)),
                            ![e].at = dispatch[e].at + 1,
                            ![e].pc = "resolving"]
                    ELSE [dispatch EXCEPT ![e].pc = "failed",
                                          ![e].raised = "TransportError"]
    /\ UNCHANGED <<regVars, call, raised, cmpVars, cfgVars, extVars, optVars, declVars, history, runVars, cache>>

\* The invocation with the first command of the registry called, whatever
\* the interaction names
InvokeCallback_FirstRegistered(e) ==
    /\ dispatch[e].pc = "resolving"
    /\ dispatch[e].at > Len(dispatch[e].event.options)
    /\ effects' = Append(effects,
                         Effect(e, "callback", slash_commands[1].val.name, "",
                                PositionalArgs(dispatch[e].kwargs)))
    /\ dispatch' =
          IF dispatch[e].callback_raises
          THEN [dispatch EXCEPT ![e].pc = "failed",
                                ![e].raised = "CallbackError"]
          ELSE [dispatch EXCEPT ![e].pc = "invoked"]
    /\ UNCHANGED <<regVars, call, raised, cmpVars, cfgVars, extVars, optVars, declVars, history, runVars, cache>>

\* The invocation with the callback's exception caught and dropped
InvokeCallback_CatchesError(e) ==
    /\ dispatch[e].pc = "resolving"
    /\ dispatch[e].at > Len(dispatch[e].event.options)
    /\ LET command == DictGet(slash_commands, dispatch[e].event.command_name)
       IN effects' = Append(effects,
                            Effect(e, "callback", command.name, "",
                                   PositionalArgs(dispatch[e].kwargs)))
    /\ dispatch' = [dispatch EXCEPT ![e].pc = "invoked"]
    /\ UNCHANGED <<regVars, call, raised, cmpVars, cfgVars, extVars, optVars, declVars, history, runVars, cache>>

\* await command(self.get_slash_context(event), *kwargs): the callback of
\* the command found by process_slash_commands is called with a context of
\* the event; what it raises leaves the dispatch
InvokeCallback(e) ==
    /\ dispatch[e].pc = "resolving"
    /\ dispatch[e].at > Len(dispatch[e].event.options)
    /\ LET command == DictGet(slash_commands, dispatch[e].event.command_name)
       IN effects' = Append(effects,
                            Effect(e, "callback", command.name, "",
                                   PositionalArgs(dispatch[e].kwargs)))
    /\ dispatch' =
          IF dispatch[e].callback_raises
          THEN [dispatch EXCEPT ![e].pc = "failed",
                                ![e].raised = "CallbackError"]
          ELSE [dispatch EXCEPT ![e].pc = "invoked"]
    /\ UNCHANGED <<regVars, call, raised, cmpVars, cfgVars, extVars, optVars, declVars, history, runVars, cache>>

(* The events dispatched *)

\* The most options an interaction of the model carries.
MaxEventOptions == 2

\* The id the options of the model refer to.
EventId == "7"

\* The name of the option at a position of an interaction.
OptionNameAt(i) ==
    CASE i = 1 -> "text"
      [] i = 2 -> "n"
      [] OTHER -> "m"

EventOptionTypes ==
    {"CHANNEL", "USER", "ROLE", "ATTACHMENT", "STRING", "INTEGER"}

\* An option's value: an id (a Snowflake), a string, or a plain integer.
EventValues ==
    {PyValue("Snowflake", EventId), PyValue("str", "hello"), PyValue("int", EventId)}

\* The kinds with the values they are sent with: an id or a value that is
\* none for CHANNEL, USER and ROLE, an id or a plain integer for
\* ATTACHMENT, a string for STRING and an integer for INTEGER.
EventOptionPairs ==
    {tv \in EventOptionTypes \X EventValues :
        \/ tv[1] \in {"CHANNEL", "USER", "ROLE"} /\ tv[2].py \in {"Snowflake", "str"}
        \/ tv[1] = "ATTACHMENT" /\ tv[2].py \in {"Snowflake", "int"}
        \/ tv[1] = "STRING" /\ tv[2].py = "str"
        \/ tv[1] = "INTEGER" /\ tv[2].py = "int"}

EventOptions ==
    UNION {{[i \in 1..k |-> [name |-> OptionNameAt(i), type |-> f[i][1],
                             value |-> f[i][2]]] :
               f \in [1..k -> EventOptionPairs]} :
           k \in 0..MaxEventOptions}

\* inter.resolved: None, or a side table with or without the attachment
EventResolved ==
    {[none |-> TRUE, attachments |-> {}],
     [none |-> FALSE, attachments |-> {}],
     [none |-> FALSE, attachments |-> {EventId}]}

\* A command interaction naming the group "grp": its first option is the
\* sub-command invoked.
GroupEvent(sub) ==
    [kind |-> "command", command_name |-> "grp", guild_id |-> Guild1,
     options |-> <<[name |-> sub, type |-> "SUB_COMMAND", value |-> PyNone]>>,
     resolved |-> [none |-> TRUE, attachments |-> {}]]

\* The interaction events: command interactions naming "ping" or "echo",
\* command interactions naming the group "grp" with the sub-command "sub"
\* or an unknown one, and an interaction of another kind.
Events ==
    [kind : {"command"}, command_name : {"ping", "echo"},
     guild_id : {NoGuild, Guild1}, options : EventOptions,
     resolved : EventResolved]
      \cup {GroupEvent("sub"), GroupEvent("nope")}
      \cup {[kind |-> "component", command_name |-> "ping", guild_id |-> Guild1,
              options |-> <<>>, resolved |-> [none |-> TRUE, attachments |-> {}]]}

\* The dispatch of an event that has just arrived.
Received(event) ==
    [event |-> event, pc |-> "received", at |-> 0, kwargs |-> <<>>,
     raised |-> "none", callback_raises |-> FALSE]

\* The registries of the bots that receive events: "ping" alone, or "ping"
\* and "echo" with the group "grp".
DispatchRegistries ==
    {[commands |-> <<SlashCommand("ping", "d1", <<>>, <<>>)>>, groups |-> <<>>],
     [commands |-> <<SlashCommand("ping", "d1", <<>>, <<>>),
                     SlashCommand("echo", "d1", <<>>, <<TextOption("STRING")>>)>>,
      groups |-> <<RecGroup("d1", <<>>)>>]}

\* A bot receives one event; the callback it may reach returns or raises.
InitDispatch ==
    /\ \E r \in DispatchRegistries :
          /\ slash_commands = AsDict(r.commands)
          /\ slash_groups = AsDict(r.groups)
    /\ ext_commands = <<>>
    /\ ext_groups = <<>>
    /\ call = [op |-> "none", name |-> ""]
    /\ raised = "none"
    /\ compared = <<>>
    /\ purge_extra = FALSE
    /\ default_guilds = <<>>
    /\ ext_default_guilds = <<>>
    /\ me = TRUE
    /\ remote = <<>>
    /\ remote0 = <<>>
    /\ calls = <<>>
    /\ pc = "done"
    /\ pending = <<>>
    /\ idx = 0
    /\ all_commands = <<>>
    /\ fail_at = 0
    /\ Fresh
    /\ \E event \in Events, raises \in BOOLEAN :
          dispatch = <<[Received(event) EXCEPT !.callback_raises = raises]>>
    /\ cache \in [channels : SUBSET {EventId},
                   members : SUBSET {<<Guild1, EventId>>},
                   roles : SUBSET {EventId}]
    /\ effects = <<>>

NextDispatch ==
    \/ \E e \in 1..Len(dispatch) : ProcessSlashCommands(e)
    \/ \E e \in 1..Len(dispatch) : ResolveOption(e)
    \/ \E e \in 1..Len(dispatch) : FetchMember(e)
    \/ \E e \in 1..Len(dispatch) : InvokeCallback(e)

SpecDispatch == InitDispatch /\ [][NextDispatch]_vars

-----------------------------------------------------------------------------
(* Claims about dispatch *)

\* The effects of one operation made by the dispatch of event e, by position.
EffectsOf(e, op) ==
    {i \in 1..Len(effects) : effects[i].dispatch = e /\ effects[i].op = op}

\* All the effects made by the dispatch of event e, by position.
AllEffectsOf(e) == {i \in 1..Len(effects) : effects[i].dispatch = e}

\* The effects of one operation made for the option `opt` of event e.
EffectsForOption(e, op, opt) ==
    {i \in EffectsOf(e, op) : effects[i].args = <<PyValue("str", opt.name)>>}

\* C16: an interaction event that is not a command interaction is ignored:
\* no callback, no cache lookup, no network call, no error.
C16_NonCommandIgnored ==
    \A e \in 1..Len(dispatch) :
        dispatch[e].event.kind # "command" =>
            /\ dispatch[e].pc \in {"received", "ignored"}
            /\ dispatch[e].raised = "none"
            /\ AllEffectsOf(e) = {}

\* C16 witness: an interaction of another kind has been processed.
C16_Witness ==
    \E e \in 1..Len(dispatch) :
        dispatch[e].event.kind # "command" /\ dispatch[e].pc = "ignored"

C18_CallbackReceivesResolvedValues ==
    \A e \in 1..Len(dispatch) :
        \A i \in EffectsOf(e, "callback") :
            effects[i].args = DictValues(dispatch[e].kwargs)

\* C19: a CHANNEL option with an integer id resolves to the cached channel
\* when the id is cached and to None when it is not, and no network call is
\* made for it.
C19_ChannelFromCacheOnly ==
    \A e \in 1..Len(dispatch) :
        \A k \in 1..Len(dispatch[e].event.options) :
            LET opt == dispatch[e].event.options[k] IN
            (opt.type = "CHANNEL" /\ IsInt(opt.value)) =>
                /\ DictHas(dispatch[e].kwargs, opt.name) =>
                      DictGet(dispatch[e].kwargs, opt.name) =
                          IF opt.value.v \in cache.channels
                          THEN [py |-> "GuildChannel", v |-> opt.value.v,
                                guild |-> "", src |-> "cache"]
                          ELSE PyNone
                /\ EffectsForOption(e, "fetch_member", opt) = {}

\* C19 witness: a CHANNEL option whose id is not cached was resolved, and
\* the callback was invoked.
C19_Witness ==
    \E e \in 1..Len(dispatch) :
        /\ dispatch[e].pc = "invoked"
        /\ \E k \in 1..Len(dispatch[e].event.options) :
              /\ dispatch[e].event.options[k].type = "CHANNEL"
              /\ IsInt(dispatch[e].event.options[k].value)
              /\ dispatch[e].event.options[k].value.v \notin cache.channels
              /\ DictGet(dispatch[e].kwargs, dispatch[e].event.options[k].name) = PyNone

\* C20: a USER option with an integer id on an interaction of a guild
\* resolves to the cached member without a fetch when (guild, user) is
\* cached; when it is not, exactly one member fetch is issued for that
\* (guild, user) and its result is the resolved value.
C20_MemberFromCacheElseOneFetch ==
    \A e \in 1..Len(dispatch) :
        \A k \in 1..Len(dispatch[e].event.options) :
            LET opt == dispatch[e].event.options[k]
                guild == dispatch[e].event.guild_id
                fetches == EffectsForOption(e, "fetch_member", opt)
            IN
            (opt.type = "USER" /\ IsInt(opt.value) /\ guild # NoGuild) =>
                IF <<guild, opt.value.v>> \in cache.members
                THEN /\ fetches = {}
                     /\ DictHas(dispatch[e].kwargs, opt.name) =>
                           DictGet(dispatch[e].kwargs, opt.name) =
                               [py |-> "Member", v |-> opt.value.v,
                                guild |-> guild, src |-> "cache"]
                ELSE /\ Cardinality(fetches) <= 1
                     /\ \A i \in fetches :
                           /\ effects[i].target = opt.value.v
                           /\ effects[i].guild = guild
                     /\ DictHas(dispatch[e].kwargs, opt.name) =>
                           /\ Cardinality(fetches) = 1
                           /\ DictGet(dispatch[e].kwargs, opt.name) =
                                 [py |-> "Member", v |-> opt.value.v,
                                  guild |-> guild, src |-> "rest"]

\* C20 witness: a USER option whose member is not cached was resolved by a
\* fetch, and the callback was invoked.
C20_Witness ==
    \E e \in 1..Len(dispatch) :
        /\ dispatch[e].pc = "invoked"
        /\ dispatch[e].event.guild_id # NoGuild
        /\ \E k \in 1..Len(dispatch[e].event.options) :
              /\ dispatch[e].event.options[k].type = "USER"
              /\ <<dispatch[e].event.guild_id, EventId>> \notin cache.members
              /\ EffectsForOption(e, "fetch_member",
                                  dispatch[e].event.options[k]) # {}

\* The dispatch of event e is over.
DispatchOver(e) == dispatch[e].pc \in {"ignored", "invoked", "returned", "failed"}

\* The lookups and fetches made for the option `opt` of event e.
LookupsForOption(e, opt) ==
    {i \in AllEffectsOf(e) :
        /\ effects[i].op # "callback"
        /\ effects[i].args = <<PyValue("str", opt.name)>>}

\* C21: a USER option with an integer id on an interaction outside a guild
\* resolves to None, with no member lookup in the cache and no fetch.
C21_UserWithoutGuildIsNone ==
    \A e \in 1..Len(dispatch) :
        \A k \in 1..Len(dispatch[e].event.options) :
            LET opt == dispatch[e].event.options[k] IN
            (/\ opt.type = "USER"
             /\ IsInt(opt.value)
             /\ dispatch[e].event.guild_id = NoGuild) =>
                /\ LookupsForOption(e, opt) = {}
                /\ DictHas(dispatch[e].kwargs, opt.name) =>
                      DictGet(dispatch[e].kwargs, opt.name) = PyNone

\* C21 witness: the callback was invoked for an interaction outside a guild
\* that carries a USER option with an id.
C21_Witness ==
    \E e \in 1..Len(dispatch) :
        /\ dispatch[e].pc = "invoked"
        /\ dispatch[e].event.guild_id = NoGuild
        /\ \E k \in 1..Len(dispatch[e].event.options) :
              /\ dispatch[e].event.options[k].type = "USER"
              /\ dispatch[e].event.options[k].value.py = "Snowflake"

\* C22: a ROLE option with an integer id never triggers a fetch; outside a
\* guild it resolves to None without a lookup, in a guild to the cached
\* role, or to None when the role is not cached.
C22_RoleFromCacheOnly ==
    \A e \in 1..Len(dispatch) :
        \A k \in 1..Len(dispatch[e].event.options) :
            LET opt == dispatch[e].event.options[k]
                resolved == DictHas(dispatch[e].kwargs, opt.name)
                value == DictGet(dispatch[e].kwargs, opt.name)
            IN
            (opt.type = "ROLE" /\ IsInt(opt.value)) =>
                /\ EffectsForOption(e, "fetch_member", opt) = {}
                /\ IF dispatch[e].event.guild_id = NoGuild
                   THEN /\ LookupsForOption(e, opt) = {}
                        /\ resolved => value = PyNone
                   ELSE resolved =>
                          value = IF opt.value.v \in cache.roles
                                  THEN [py |-> "Role", v |-> opt.value.v,
                                        guild |-> "", src |-> "cache"]
                                  ELSE PyNone

\* C22 witness: the callback was invoked for an interaction of a guild that
\* carries a ROLE option whose role is not cached.
C22_Witness ==
    \E e \in 1..Len(dispatch) :
        /\ dispatch[e].pc = "invoked"
        /\ dispatch[e].event.guild_id # NoGuild
        /\ cache.roles = {}
        /\ \E k \in 1..Len(dispatch[e].event.options) :
              /\ dispatch[e].event.options[k].type = "ROLE"
              /\ dispatch[e].event.options[k].value.py = "Snowflake"

\* The interaction of event e names a registered command and carries an
\* ATTACHMENT option with an id, without the resolved side table.
AttachmentWithoutSideTable(e) ==
    /\ dispatch[e].event.kind = "command"
    /\ DictHas(slash_commands, dispatch[e].event.command_name)
    /\ dispatch[e].event.resolved.none
    /\ \E k \in 1..Len(dispatch[e].event.options) :
          /\ dispatch[e].event.options[k].type = "ATTACHMENT"
          /\ IsSnowflake(dispatch[e].event.options[k].value)

\* C23: the dispatch of an interaction with an ATTACHMENT option and no
\* resolved side table ends with an error raised to the caller, never
\* silently, and the callback is not invoked.
C23_AbsentSideTableIsRaised ==
    \A e \in 1..Len(dispatch) :
        (AttachmentWithoutSideTable(e) /\ DispatchOver(e)) =>
            /\ dispatch[e].pc = "failed"
            /\ dispatch[e].raised # "none"
            /\ EffectsOf(e, "callback") = {}

\* The option is passed through: its kind is none of CHANNEL, USER, ROLE
\* and ATTACHMENT, or its value is not an id of the type the kind expects.
PassedThrough(opt) ==
    \/ opt.type \notin {"CHANNEL", "USER", "ROLE", "ATTACHMENT"}
    \/ opt.type \in {"CHANNEL", "USER", "ROLE"} /\ ~IsInt(opt.value)
    \/ opt.type = "ATTACHMENT" /\ ~IsSnowflake(opt.value)

\* C24: an option of another kind, or of one of the four kinds with a value
\* that is not an id of the expected type, resolves to its raw value, with
\* no cache lookup and no fetch.
C24_OtherOptionsPassRawValue ==
    \A e \in 1..Len(dispatch) :
        \A k \in 1..Len(dispatch[e].event.options) :
            LET opt == dispatch[e].event.options[k] IN
            PassedThrough(opt) =>
                /\ LookupsForOption(e, opt) = {}
                /\ DictHas(dispatch[e].kwargs, opt.name) =>
                      DictGet(dispatch[e].kwargs, opt.name) = opt.value

\* C24 witness: the callback was invoked for an interaction with an INTEGER
\* option and a CHANNEL option whose value is a string.
C24_Witness ==
    \E e \in 1..Len(dispatch) :
        /\ dispatch[e].pc = "invoked"
        /\ \E k \in 1..Len(dispatch[e].event.options) :
              dispatch[e].event.options[k].type = "INTEGER"
        /\ \E k \in 1..Len(dispatch[e].event.options) :
              /\ dispatch[e].event.options[k].type = "CHANNEL"
              /\ dispatch[e].event.options[k].value.py = "str"

\* C25: when the callback a dispatch invokes raises, the dispatch ends
\* with that exception raised to its caller, and the step leaves the
\* registry of the bot and of the extension as it was.
C25_CallbackErrorPropagates ==
    [][\A e \in 1..Len(dispatch) :
          (/\ dispatch[e].callback_raises
           /\ EffectsOf(e, "callback") = {}
           /\ EffectsOf(e, "callback")' # {}) =>
              /\ dispatch'[e].pc = "failed"
              /\ dispatch'[e].raised = "CallbackError"
              /\ regVars' = regVars
              /\ extVars' = extVars]_vars

\* C25 witness: a callback was invoked and raised.
C25_Witness ==
    \E e \in 1..Len(dispatch) :
        /\ dispatch[e].callback_raises
        /\ EffectsOf(e, "callback") # {}
        /\ dispatch[e].pc = "failed"

\* C26: an interaction naming a registered group is not dropped: the
\* sub-command its first option names has its callback invoked, and a name
\* that is no sub-command of the group ends the dispatch with an error.
C26_GroupDispatch ==
    \A e \in 1..Len(dispatch) :
        (/\ dispatch[e].event.kind = "command"
         /\ DictHas(slash_groups, dispatch[e].event.command_name)
         /\ DispatchOver(e)) =>
            LET group == DictGet(slash_groups, dispatch[e].event.command_name)
                sub == dispatch[e].event.options[1].name
            IN IF DictHas(group.subcommands, sub)
               THEN /\ dispatch[e].pc # "ignored"
                    /\ \E i \in EffectsOf(e, "callback") : effects[i].target = sub
               ELSE /\ dispatch[e].pc = "failed"
                    /\ dispatch[e].raised # "none"

-----------------------------------------------------------------------------
(* Loading an extension: Extension.create_setup *)

\* if command.guild_ids is None and self._default_guilds is not None:
\*     command._guild_ids = self._default_guilds
\* (an extension without default guilds is the empty ext_default_guilds,
\* which back-fills nothing)
BackFilled(c) ==
    IF c.guild_ids = NoneGuilds /\ ext_default_guilds # <<>>
    THEN [c EXCEPT !.guild_ids = ext_default_guilds]
    ELSE c

\* The first loop's body before bot.add_slash_command(command)
SetupCommand(c) == BackFilled([c EXCEPT !.extension = ExtName])

\* No add ever raises: a taken name is not noticed.
FirstClash_Never(d, taken) == 0

\* The position of the first entry of d whose key is in `taken`, or 0
FirstClash(d, taken) ==
    IF \E i \in 1..Len(d) : d[i].key \in taken
    THEN CHOOSE i \in 1..Len(d) :
            /\ d[i].key \in taken
            /\ \A j \in 1..(i - 1) : d[j].key \notin taken
    ELSE 0

\* The entries of d up to position n, each descriptor replaced by
\* SetupCommand of it (commands) or BackFilled of it (groups); the
\* descriptors are shared objects, so the extension's own maps change too
Touched(d, n, isCommand) ==
    [i \in 1..Len(d) |->
        IF i <= n
        THEN [key |-> d[i].key,
              val |-> IF isCommand THEN SetupCommand(d[i].val)
                      ELSE BackFilled(d[i].val)]
        ELSE d[i]]

\* Extension.create_setup(bot): the commands, then the groups, are added to
\* the bot one by one; the first add that raises CommandAlreadyExists ends
\* the call, and only a call that returns marks the extension loaded
ExtCreateSetup ==
    LET clashC == FirstClash(ext_commands, DictKeys(slash_commands))
        doneC == IF clashC = 0 THEN Len(ext_commands) ELSE clashC - 1
        seenC == IF clashC = 0 THEN Len(ext_commands) ELSE clashC
        commands == Touched(ext_commands, seenC, TRUE)
        added == slash_commands \o SubSeq(commands, 1, doneC)
        clashG == FirstClash(ext_groups, DictKeys(slash_groups) \cup DictKeys(added))
        doneG == IF clashG = 0 THEN Len(ext_groups) ELSE clashG - 1
        seenG == IF clashG = 0 THEN Len(ext_groups) ELSE clashG
        groups == Touched(ext_groups, seenG, FALSE)
    IN
    /\ call' = [op |-> "create_setup", name |-> ExtName]
    /\ ext_commands' = commands
    /\ slash_commands' = added
    /\ IF clashC # 0
       THEN /\ raised' = "CommandAlreadyExists"
            /\ UNCHANGED <<slash_groups, ext_groups, extVars>>
       ELSE /\ ext_groups' = groups
            /\ slash_groups' = slash_groups \o SubSeq(groups, 1, doneG)
            /\ IF clashG # 0
               THEN /\ raised' = "CommandAlreadyExists"
                    /\ UNCHANGED extVars
               ELSE /\ raised' = "none"
                    /\ ext_loaded' = TRUE
                    /\ extensions' = extensions \cup {ExtName}
    /\ UNCHANGED <<cmpVars, cfgVars, optVars, declVars, history, dspVars, runVars>>

\* The guild_ids arguments a descriptor of the extension is declared with
SetupGuildArgs == {NoneGuilds, <<Guild3>>}

\* The extension's commands: any of ping and echo, registered in either order
SetupCommands ==
    {<<>>} \cup
    {<<[key |-> n, val |-> SlashCommand(n, "d1", g, <<>>)]>> :
        n \in {"ping", "echo"}, g \in SetupGuildArgs} \cup
    {<<[key |-> "ping", val |-> SlashCommand("ping", "d1", g1, <<>>)],
       [key |-> "echo", val |-> SlashCommand("echo", "d1", g2, <<>>)]>> :
        g1 \in SetupGuildArgs, g2 \in SetupGuildArgs}

\* The extension's groups: none, or grp, bound to the extension by
\* Extension.add_slash_group
SetupGroups ==
    {<<>>} \cup
    {<<[key |-> "grp",
        val |-> [SlashGroup("grp", "d1", g) EXCEPT !.extension = ExtName]]>> :
        g \in SetupGuildArgs}

\* What the bot holds before the extension is loaded
SetupBotCommands ==
    {<<>>,
     <<[key |-> "echo", val |-> SlashCommand("echo", "d2", NoneGuilds, <<>>)]>>,
     <<[key |-> "grp", val |-> SlashCommand("grp", "d2", NoneGuilds, <<>>)]>>}

InitSetup ==
    /\ slash_commands \in SetupBotCommands
    /\ slash_groups = <<>>
    /\ ext_commands \in SetupCommands
    /\ ext_groups \in SetupGroups
    /\ call = [op |-> "none", name |-> ""]
    /\ raised = "none"
    /\ compared = <<>>
    /\ purge_extra = FALSE
    /\ default_guilds \in {<<>>, <<Guild2>>}
    /\ ext_default_guilds \in {<<>>, <<Guild1>>}
    /\ me = FALSE
    /\ remote = <<>>
    /\ remote0 = <<>>
    /\ calls = <<>>
    /\ pc = "idle"
    /\ pending = <<>>
    /\ idx = 0
    /\ all_commands = <<>>
    /\ fail_at = 0
    /\ Fresh
    /\ NoDispatch

NextSetup == ExtCreateSetup

SpecSetup == InitSetup /\ [][NextSetup]_vars

\* C27: loading an extension that has default guilds gives each of its
\* commands and groups declared without guild_ids the extension's default
\* as guild_ids, and leaves declared guild_ids as they are.
C27_BackFillFirstWriterWins ==
    [][(call'.op = "create_setup" /\ raised' = "none") =>
          /\ \A i \in 1..Len(ext_commands) :
                DictGet(slash_commands', ext_commands[i].key).guild_ids =
                    IF ext_commands[i].val.guild_ids = <<>>
                    THEN ext_default_guilds
                    ELSE ext_commands[i].val.guild_ids
          /\ \A i \in 1..Len(ext_groups) :
                DictGet(slash_groups', ext_groups[i].key).guild_ids =
                    IF ext_groups[i].val.guild_ids = <<>>
                    THEN ext_default_guilds
                    ELSE ext_groups[i].val.guild_ids]_vars

-----------------------------------------------------------------------------
(* Option: the wire-level kind of a declared type *)

\* Option.option_types of dawn.slash, in the order of the dict literal
option_types ==
    <<[key |-> "User", val |-> "USER"],
      [key |-> "Member", val |-> "USER"],
      [key |-> "Role", val |-> "ROLE"],
      [key |-> "GuildChannel", val |-> "CHANNEL"],
      [key |-> "Attachment", val |-> "ATTACHMENT"],
      [key |-> "bool", val |-> "BOOLEAN"],
      [key |-> "int", val |-> "INTEGER"],
      [key |-> "float", val |-> "FLOAT"],
      [key |-> "str", val |-> "STRING"]>>

\* Option.option_types of dawn.commands.slash.base
base_option_types ==
    <<[key |-> "User", val |-> "USER"],
      [key |-> "Member", val |-> "USER"],
      [key |-> "Role", val |-> "ROLE"],
      [key |-> "GuildChannel", val |-> "CHANNEL"],
      [key |-> "Attachment", val |-> "ATTACHMENT"],
      [key |-> "bool", val |-> "BOOLEAN"],
      [key |-> "int", val |-> "INTEGER"],
      [key |-> "float", val |-> "FLOAT"],
      [key |-> "str", val |-> "STRING"]>>

\* The two modules that define Option
OptionModules == {"dawn.slash", "dawn.commands.slash.base"}

\* The table of the module's Option class
OptionTypesOf(module) ==
    IF module = "dawn.slash" THEN option_types ELSE base_option_types

\* The lookup with Member missing from the table and INTEGER as default.
OptionTypeOf_MemberMissing(module, type) ==
    IF type = "Member" THEN "INTEGER"
    ELSE IF DictHas(OptionTypesOf(module), type)
    THEN DictGet(OptionTypesOf(module), type)
    ELSE "INTEGER"

\* self.option_types.get(type, hikari.OptionType.STRING)
OptionTypeOf(module, type) ==
    IF DictHas(OptionTypesOf(module), type)
    THEN DictGet(OptionTypesOf(module), type)
    ELSE "STRING"

\* The type argument left out of the call
NotGiven == "<not given>"

\* The keyword default of Option.__init__: type: t.Any = str
TypeArgument(type) == IF type = NotGiven THEN "str" ELSE type

\* Option.__init__: the hikari.CommandOption built from the arguments
Option(module, name, description, type, required) ==
    [type |-> OptionTypeOf(module, TypeArgument(type)),
     name |-> name,
     description |-> description,
     is_required |-> required]

\* The types an option is declared with: those of the table, two outside
\* it (a subclass of GuildChannel and a builtin), and none at all
DeclaredTypes ==
    {"User", "Member", "Role", "GuildChannel", "Attachment", "bool", "int",
     "float", "str", "GuildTextChannel", "dict", NotGiven}

\* Option(name, description, type=..., required=...)
ConstructOption ==
    \E module \in OptionModules, name \in OptionNames,
       description \in {"...", "d1"}, type \in DeclaredTypes,
       required \in BOOLEAN :
        /\ constructed' =
              <<[module |-> module, declared |-> type,
                 option |-> Option(module, name, description, type, required)]>>
        /\ call' = [op |-> "Option", name |-> name]
        /\ UNCHANGED <<regVars, raised, cmpVars, cfgVars, extVars, declVars, history,
                       dspVars, runVars>>

NextOption == ConstructOption

SpecOption == Init /\ [][NextOption]_vars

\* The kind the table gives a declared type.
KindOfDeclared(type) ==
    CASE type \in {"User", "Member"} -> "USER"
      [] type = "Role" -> "ROLE"
      [] type = "GuildChannel" -> "CHANNEL"
      [] type = "Attachment" -> "ATTACHMENT"
      [] type = "bool" -> "BOOLEAN"
      [] type = "int" -> "INTEGER"
      [] type = "float" -> "FLOAT"
      [] OTHER -> "STRING"

\* C28: the kind of a constructed Option is the one the fixed table gives
\* its declared type (User and Member USER, Role ROLE, GuildChannel
\* CHANNEL, Attachment ATTACHMENT, bool BOOLEAN, int INTEGER, float FLOAT,
\* str STRING), and STRING for a type outside the table or no type at all.
C28_OptionKindInference ==
    \A i \in 1..Len(constructed) :
        constructed[i].option.type = KindOfDeclared(constructed[i].declared)

\* C28 witness: an Option of dawn.commands.slash.base declared with Member
\* was constructed.
C28_Witness ==
    \E i \in 1..Len(constructed) :
        /\ constructed[i].module = "dawn.commands.slash.base"
        /\ constructed[i].declared = "Member"
        /\ constructed[i].option.type = "USER"

-----------------------------------------------------------------------------
(* The order of the phases, and reconciliation run again *)

IsGuildCall(c) == c.scope # "global"

\* C29: every call on the global scope precedes every call on a guild
\* scope, and the calls are issued one at a time: a step of the callback
\* issues at most one call, the next only after the one before was awaited.
C29_GlobalPhaseBeforeGuildPhase ==
    [][/\ \A i, j \in 1..Len(calls') :
             (i < j /\ IsGuildCall(calls'[i])) => IsGuildCall(calls'[j])
       /\ Len(calls') <= Len(calls) + 1]_vars

\* C29 witness: a run is over that issued a global call and two guild calls.
C29_Witness ==
    /\ pc = "done"
    /\ \E i \in 1..Len(calls) : ~IsGuildCall(calls[i])
    /\ \E i, j \in 1..Len(calls) :
          i < j /\ IsGuildCall(calls[i]) /\ IsGuildCall(calls[j])

\* The runs of the StartedEvent callback a behaviour goes through
MaxRuns == 2

\* The application is started again with the same registry: the
\* StartedEvent is dispatched to the subscribed callback once more. The
\* calls of the run that is over are kept in `history`.
Restart ==
    /\ pc = "done"
    /\ Len(history) < MaxRuns - 1
    /\ history' = Append(history, calls)
    /\ calls' = <<>>
    /\ pc' = "idle"
    /\ remote0' = remote
    /\ idx' = 0
    /\ all_commands' = <<>>
    /\ UNCHANGED <<regVars, cmpVars, cfgVars, extVars, optVars, declVars, dspVars, call,
                   raised, me, remote, pending, fail_at>>

NextRerun ==
    \/ NextReconcile
    \/ Restart

SpecRerun == InitGuilds /\ [][NextRerun]_vars

\* The create calls of `run` for guild `g` that carry `name`, by position.
CreatesIn(run, name, g) ==
    {i \in 1..Len(run) :
        /\ run[i].op = "create"
        /\ run[i].scope = g
        /\ run[i].items[1].name = name}

\* C30: when a run is over, each descriptor got exactly one create call
\* for each guild of its effective guild set and none for another guild; a
\* descriptor classified as guild-bound has a non-empty effective set; and
\* a later run with the same registry issued the same guild calls as the
\* run before it, whatever the platform holds.
C30_GuildCreatesOnEveryRun ==
    /\ \A c \in Descriptors :
          /\ HasGuildBinded(c) => EffectiveGuilds(c) # <<>>
          /\ pc = "done" =>
                \A g \in {Guild1, Guild2, Guild3} :
                    Cardinality(CreatesIn(calls, c.name, g)) =
                        IF g \in ChainGuilds(c) THEN 1 ELSE 0
    /\ (pc = "done" /\ history # <<>>) =>
          SelectSeq(calls, IsGuildCall) =
              SelectSeq(history[Len(history)], IsGuildCall)

\* C30 witness: a second run is over, with guild creates, on a platform
\* that already held commands when it began.
C30_Witness ==
    /\ pc = "done"
    /\ history # <<>>
    /\ remote0 # <<>>
    /\ \E i \in 1..Len(calls) : IsGuildCall(calls[i])

-----------------------------------------------------------------------------
(* Claims about a load that fails half-way *)

\* Extension.bot: raises BotNotInitialised while the extension is not loaded
ExtensionBot == IF ext_loaded = FALSE THEN "BotNotInitialised" ELSE "bot"

\* C36: when the k-th command of the extension is the first whose name the
\* bot already holds, create_setup raises the duplicate-name error, the
\* k-1 commands before it are in the bot's registry, and the extension is
\* no more loaded nor recorded than before (an unloaded one still raises
\* BotNotInitialised from its bot property); when create_setup returns, the
\* extension is loaded, recorded under its name, and each of its commands
\* is in the bot's registry with the extension as owner.
C36_FailedLoadNotMarkedLoaded ==
    [][call'.op = "create_setup" =>
          /\ \A k \in 1..Len(ext_commands) :
                (/\ ext_commands[k].key \in DictKeys(slash_commands)
                 /\ \A j \in 1..(k - 1) :
                       ext_commands[j].key \notin DictKeys(slash_commands)) =>
                    /\ raised' = "CommandAlreadyExists"
                    /\ Len(slash_commands') = Len(slash_commands) + k - 1
                    /\ SubSeq(slash_commands', 1, Len(slash_commands)) =
                          slash_commands
                    /\ \A j \in 1..(k - 1) :
                          DictHas(slash_commands', ext_commands[j].key)
                    /\ ext_loaded' = ext_loaded
                    /\ extensions' = extensions
                    /\ ExtensionBot = "BotNotInitialised" =>
                          ExtensionBot' = "BotNotInitialised"
          /\ raised' = "none" =>
                /\ ext_loaded'
                /\ ExtensionBot' = "bot"
                /\ ExtName \in extensions'
                /\ \A i \in 1..Len(ext_commands) :
                      /\ DictHas(slash_commands', ext_commands[i].key)
                      /\ DictGet(slash_commands', ext_commands[i].key).extension
                            = ExtName]_vars

\* C36 witness: create_setup raised on the second command of the
\* extension; the first is in the bot's registry, owned by the extension,
\* and the extension is neither loaded nor recorded.
C36_Witness ==
    /\ call.op = "create_setup"
    /\ raised = "CommandAlreadyExists"
    /\ Len(ext_commands) = 2
    /\ DictHas(slash_commands, ext_commands[1].key)
    /\ DictGet(slash_commands, ext_commands[1].key).extension = ExtName
    /\ DictGet(slash_commands, ext_commands[2].key).extension = NoExtension
    /\ ~ext_loaded
    /\ extensions = {}

-----------------------------------------------------------------------------
(* Dispatch and the registry *)

\* C32: no step of the dispatch of an interaction event, whether the event
\* ends ignored, resolved, invoked or failed, changes the commands map, a
\* descriptor in it (name, options, guild_ids), the groups, the
\* extension's own maps or the bot's extensions map.
C32_DispatchReadsRegistryOnly ==
    [][dispatch' # dispatch =>
          /\ slash_commands' = slash_commands
          /\ slash_groups' = slash_groups
          /\ ext_commands' = ext_commands
          /\ ext_groups' = ext_groups
          /\ extensions' = extensions
          /\ ext_loaded' = ext_loaded]_vars

\* C32 witness: with two commands and a group registered, a dispatch went
\* through a cache lookup and a member fetch and ended with its callback
\* invoked.
C32_Witness ==
    /\ Len(slash_commands) = 2
    /\ Len(slash_groups) = 1
    /\ \E e \in 1..Len(dispatch) :
          /\ dispatch[e].pc = "invoked"
          /\ EffectsOf(e, "get_member") # {}
          /\ EffectsOf(e, "fetch_member") # {}

-----------------------------------------------------------------------------
(* Two events in flight *)

\* The id the options of the second event refer to.
OtherId == "8"

\* The option names of the first and of the second event.
NamesA == <<"text", "n", "m">>
NamesB == <<"user", "other", "third">>

\* The options of the first event: members by id EventId, and strings
PairsA == {<<"USER", PyValue("Snowflake", EventId)>>,
           <<"STRING", PyValue("str", "hello")>>}

\* The options of the second event: members by id OtherId, and strings
PairsB == {<<"USER", PyValue("Snowflake", OtherId)>>,
           <<"STRING", PyValue("str", "world")>>}

\* The option lists of up to MaxEventOptions options with the given names,
\* kinds and values.
OptionListsOf(names, pairs) ==
    UNION {{[i \in 1..k |-> [name |-> names[i], type |-> f[i][1],
                             value |-> f[i][2]]] :
               f \in [1..k -> pairs]} :
           k \in 0..MaxEventOptions}

\* A command interaction of guild Guild1.
CommandEvent(name, options) ==
    [kind |-> "command", command_name |-> name, guild_id |-> Guild1,
     options |-> options, resolved |-> [none |-> TRUE, attachments |-> {}]]

\* Two events arrive, one naming "ping" and one naming "echo"; each is
\* dispatched in a task of its own, so the steps of the two dispatches
\* interleave at every await.
InitInterleave ==
    /\ slash_commands = AsDict(<<SlashCommand("ping", "d1", <<>>, <<>>),
                                 SlashCommand("echo", "d1", <<>>, <<>>)>>)
    /\ slash_groups = <<>>
    /\ ext_commands = <<>>
    /\ ext_groups = <<>>
    /\ call = [op |-> "none", name |-> ""]
    /\ raised = "none"
    /\ compared = <<>>
    /\ purge_extra = FALSE
    /\ default_guilds = <<>>
    /\ ext_default_guilds = <<>>
    /\ me = TRUE
    /\ remote = <<>>
    /\ remote0 = <<>>
    /\ calls = <<>>
    /\ pc = "done"
    /\ pending = <<>>
    /\ idx = 0
    /\ all_commands = <<>>
    /\ fail_at = 0
    /\ Fresh
    /\ \E a \in OptionListsOf(NamesA, PairsA), b \in OptionListsOf(NamesB, PairsB) :
          dispatch = <<Received(CommandEvent("ping", a)),
                       Received(CommandEvent("echo", b))>>
    /\ cache \in [channels : {{}},
                   members : SUBSET {<<Guild1, EventId>>, <<Guild1, OtherId>>},
                   roles : {{}}]
    /\ effects = <<>>

SpecInterleave == InitInterleave /\ [][NextDispatch]_vars

\* The values the options of event e carry, as raw ids or strings.
OwnValues(e) ==
    {dispatch[e].event.options[k].value.v :
        k \in 1..Len(dispatch[e].event.options)}

\* The names of the options of event e.
OwnNames(e) ==
    {dispatch[e].event.options[k].name :
        k \in 1..Len(dispatch[e].event.options)}

\* C33: in every interleaving of the dispatches of two events, what a
\* dispatch has resolved, and what its callback is invoked with, comes
\* from the options of its own event only: every resolved entry is under
\* the name of an own option and holds None or a value of an own option,
\* every lookup and fetch is for an own id, and every argument of the
\* callback is taken from the dispatch's own resolved entries.
C33_DispatchesIndependent ==
    \A e \in 1..Len(dispatch) :
        /\ \A k \in 1..Len(dispatch[e].kwargs) :
              /\ dispatch[e].kwargs[k].key \in OwnNames(e)
              /\ \/ dispatch[e].kwargs[k].val = PyNone
                 \/ dispatch[e].kwargs[k].val.v \in OwnValues(e)
        /\ \A i \in AllEffectsOf(e) :
              /\ effects[i].op # "callback" => effects[i].target \in OwnValues(e)
              /\ effects[i].op = "callback" =>
                    /\ effects[i].target = dispatch[e].event.command_name
                    /\ \A a \in 1..Len(effects[i].args) :
                          \/ effects[i].args[a].v \in OwnNames(e)
                          \/ effects[i].args[a].v \in OwnValues(e)

\* C33 witness: the dispatch of the first event is suspended at a member
\* fetch while the second event, which arrived after it, has had its
\* callback invoked with a member it fetched itself.
C33_Witness ==
    /\ Len(dispatch) = 2
    /\ dispatch[1].pc = "fetching"
    /\ dispatch[2].pc = "invoked"
    /\ EffectsOf(2, "fetch_member") # {}
    /\ EffectsOf(2, "callback") # {}

-----------------------------------------------------------------------------
(* Autocomplete handlers *)

\* The object has no _autocompletes attribute
NoAttribute == [set |-> FALSE, items |-> <<>>]

\* SlashCallable.__init__ of dawn.commands.slash.base: self._autocompletes = {}
SlashCallableInit == [set |-> TRUE, items |-> <<>>]

\* The classes of the callables: SlashCallable of dawn.commands.slash.base,
\* its subclass SlashSubCommand, and SlashCommand of dawn.slash
CallableClasses == {"SlashCallable", "SlashSubCommand", "SlashCommand"}

\* The object a constructor leaves. SlashSubCommand.__init__ sets _name,
\* _description and _options and does not call SlashCallable.__init__;
\* SlashCommand derives from the SlashCallable of dawn.slash, which has
\* neither the attribute nor the autocomplete method.
NewCallable(class) ==
    [class |-> class,
     has_autocomplete |-> class # "SlashCommand",
     autocompletes |-> IF class = "SlashCallable" THEN SlashCallableInit
                       ELSE NoAttribute]

\* The most callables constructed
MaxCallables == 2

\* The handlers registered
Handlers == {"ac_number", "ac_color"}

\* A decorated callback becomes a command or a sub-command
ConstructCallable ==
    \E class \in CallableClasses :
        /\ Len(callables) < MaxCallables
        /\ callables' = Append(callables, NewCallable(class))
        /\ call' = [op |-> "construct", name |-> class,
                    on |-> Len(callables) + 1, handler |-> ""]
        /\ raised' = "none"
        /\ UNCHANGED <<regVars, cmpVars, cfgVars, extVars, optVars, decl_group,
                       history, dspVars, runVars>>

\* SlashCallable.autocomplete(option_name)(callback): inner() does
\* self._autocompletes[option_name] = callback, which raises AttributeError
\* on an object without the attribute, as does the lookup of the method on
\* an object without it
Autocomplete(i, option_name, callback) ==
    IF callables[i].has_autocomplete /\ callables[i].autocompletes.set
    THEN /\ callables' =
               [callables EXCEPT ![i].autocompletes.items =
                                     DictSet(@, option_name, callback)]
         /\ raised' = "none"
    ELSE /\ callables' = callables
         /\ raised' = "AttributeError"

\* @command.autocomplete(name) over a handler
RegisterAutocomplete ==
    \E i \in 1..Len(callables), n \in OptionNames, h \in Handlers :
        /\ Autocomplete(i, n, h)
        /\ call' = [op |-> "autocomplete", name |-> n, on |-> i, handler |-> h]
        /\ UNCHANGED <<regVars, cmpVars, cfgVars, extVars, optVars, decl_group,
                       history, dspVars, runVars>>

NextAutocomplete ==
    \/ ConstructCallable
    \/ RegisterAutocomplete

SpecAutocomplete == Init /\ [][NextAutocomplete]_vars

\* The handler bound to a name in the autocompletes of a callable, or "".
BoundTo(c, n) ==
    IF c.autocompletes.set /\ DictHas(c.autocompletes.items, n)
    THEN DictGet(c.autocompletes.items, n)
    ELSE ""

\* C34: registering an autocomplete handler for an option name on a
\* command or a sub-command succeeds; afterwards the name is bound to that
\* handler, replacing an earlier one, and the bindings of the other names
\* and of the other callables are as before.
C34_AutocompleteRegistered ==
    [][call'.op = "autocomplete" =>
          /\ raised' = "none"
          /\ BoundTo(callables'[call'.on], call'.name) = call'.handler
          /\ \A n \in OptionNames \ {call'.name} :
                BoundTo(callables'[call'.on], n) = BoundTo(callables[call'.on], n)
          /\ \A j \in 1..Len(callables) :
                j # call'.on => callables'[j] = callables[j]]_vars

-----------------------------------------------------------------------------
(* Declaring sub-commands and sub-groups *)

\* SlashSubGroup.__init__: the name is lowercased
SlashSubGroup(name, description) ==
    [name |-> Lower(name), description |-> description, subcommands |-> <<>>]

\* The names given to sub-commands and sub-groups
DeclNames == {"Ping", "ping", "Echo"}

\* @group.subcommand(name=...): inner() stores the sub-command under its
\* own, lowercased, name
GroupSubcommand ==
    \E n \in DeclNames :
        LET sub_command == SlashSubCommand(n, "No Description Provided", <<>>) IN
        /\ decl_group' =
              [decl_group EXCEPT
                 !.subcommands = DictSet(@, sub_command.name, sub_command)]
        /\ call' = [op |-> "subcommand", name |-> n]
        /\ raised' = "none"
        /\ UNCHANGED <<regVars, cmpVars, cfgVars, extVars, optVars, callables,
                       history, dspVars, runVars>>

\* group.subgroup(name=...): the sub-group is stored under the name as given
GroupSubgroup ==
    \E n \in DeclNames :
        LET sub_group == SlashSubGroup(n, "No Description Provided") IN
        /\ decl_group' =
              [decl_group EXCEPT !.subgroups = DictSet(@, n, sub_group)]
        /\ call' = [op |-> "subgroup", name |-> n]
        /\ raised' = "none"
        /\ UNCHANGED <<regVars, cmpVars, cfgVars, extVars, optVars, callables,
                       history, dspVars, runVars>>

\* @sub_group.subcommand(name=...) on a sub-group of the group: inner()
\* stores the sub-command under its own, lowercased, name
SubGroupSubcommand ==
    \E g \in 1..Len(decl_group.subgroups), n \in DeclNames :
        LET sub_command == SlashSubCommand(n, "No Description Provided", <<>>) IN
        /\ decl_group' =
              [decl_group EXCEPT
                 !.subgroups[g].val.subcommands =
                     DictSet(@, sub_command.name, sub_command)]
        /\ call' = [op |-> "subgroup.subcommand", name |-> n]
        /\ raised' = "none"
        /\ UNCHANGED <<regVars, cmpVars, cfgVars, extVars, optVars, callables,
                       history, dspVars, runVars>>

NextDeclare ==
    \/ GroupSubcommand
    \/ GroupSubgroup
    \/ SubGroupSubcommand

SpecDeclare == Init /\ [][NextDeclare]_vars

\* Every key of the mapping is the name of the descriptor under it, and
\* the mapping gives a descriptor back when asked for its name.
KeyedByName(d) ==
    \A i \in 1..Len(d) :
        /\ d[i].key = d[i].val.name
        /\ DictHas(d, d[i].val.name)
        /\ DictGet(d, d[i].val.name) = d[i].val

\* C35: after any declarations, the subcommands and the subgroups of the
\* group, and the subcommands of each of its sub-groups, are keyed by the
\* lowercased name of the descriptor stored, so that a lookup by a
\* descriptor's own name returns it.
C35_KeysAreDescriptorNames ==
    /\ KeyedByName(decl_group.subcommands)
    /\ KeyedByName(decl_group.subgroups)
    /\ \A g \in 1..Len(decl_group.subgroups) :
          KeyedByName(decl_group.subgroups[g].val.subcommands)

-----------------------------------------------------------------------------
(* Claims about the reconciliation of groups *)

\* _handle_global_groups has fetched the remote commands: the second fetch
\* of the run, after the one of _handle_global_command.
GroupPhaseStarted == Cardinality(GlobalCalls("fetch")) >= 2

\* The handling of the global groups is over and the run went on.
GlobalGroupsHandled ==
    pc \in {"cm_guild_commands", "cm_guild_commands_create", "cm_guild_groups",
            "cm_guild_groups_create", "done"}

\* C31: in incremental mode no call is issued for a local global group
\* whose remote entry of the same name is identical (name, description and
\* sub-commands in order), whatever the entry's position; and for a group
\* with no remote entry the group reconciliation does not fail and issues
\* exactly one create call.
C31_GroupReconciledIncrementally ==
    (~purge_extra /\ me) =>
        \A g \in GlobalGroups :
            /\ (HasRemote0(g.name) /\ Remote0(g.name) = BuildGroup(g)) =>
                  GlobalCreatesFor(g.name) = 0
            /\ (~HasRemote0(g.name) /\ GroupPhaseStarted) =>
                  /\ raised = "none"
                  /\ GlobalGroupsHandled => GlobalCreatesFor(g.name) = 1

====
